---------------------------- MODULE Spec2Model ----------------------------
(***************************************************************************)
(* A model of the ask433 ASK/OOK modem driver (std feature build):         *)
(* the 4b6b codec (encoding.rs), the CRC-CCITT update (crc.rs), the        *)
(* software PLL (pll.rs), the AskDriver mode controller, transmit engine   *)
(* and receive path (driver.rs), and the critical-section wrappers of the  *)
(* global driver (timer/isr.rs).  The pins are the shared sample queue of  *)
(* the simulated radio of lib.rs: every write to TX appends one level that *)
(* is read back as ticks_per_bit consecutive RX samples.                   *)
(***************************************************************************)
EXTENDS Integers, Sequences, FiniteSets, TLC

VARIABLES
    drv,              \* the AskDriver: its fields, the PLL as drv.pll
    pins,             \* the TX / PTT outputs and the RX sample queue
    panicked,         \* the program has aborted with a panic
    overflow_checks,  \* build profile: arithmetic overflow panics (debug) or wraps (release)
    call,             \* the last API call: operation, argument and returned value
    caller,           \* position of the foreground caller
    obs,              \* observations of the run used to state the properties
    script            \* position in the scenario a specification plays

vars == <<drv, pins, panicked, overflow_checks, call, caller, obs, script>>

-----------------------------------------------------------------------------
(* Bounds of the model *)

\* longest payload enumerated byte by byte
MaxLen == 1
\* number of foreground API calls in one run of the free interleaving
MaxOps == 2
\* the number of send/receive rounds of the loopback scenario
MaxRounds == 2
\* the number of packets a peer sends in the receive scenario
MaxPackets == 2

-----------------------------------------------------------------------------
(* consts.rs *)

ASK_HEADER_LEN == 4
ASK_MAX_PAYLOAD_LEN == 67
ASK_PREAMBLE_LEN == 8
ASK_MAX_MESSAGE_LEN == ASK_MAX_PAYLOAD_LEN - ASK_HEADER_LEN - 3
ASK_MAX_BUF_LEN == (ASK_MAX_PAYLOAD_LEN * 2) + ASK_PREAMBLE_LEN
BROADCAST_ADDRESS == 255
ASK_START_SYMBOL == 2872

-----------------------------------------------------------------------------
(* Fixed-width integer arithmetic *)

U8 == 256
U16 == 65536

Pow2(n) == 2 ^ n

\* x >> n and x << n on unbounded integers; callers truncate to the width
Shr(x, n) == x \div Pow2(n)
Shl(x, n) == x * Pow2(n)

\* bitwise operations on one hexadecimal digit, tabulated
Xor4 ==
    [a \in 0..15, b \in 0..15 |->
        ((a + b) % 2)
        + 2 * (((a \div 2) + (b \div 2)) % 2)
        + 4 * (((a \div 4) + (b \div 4)) % 2)
        + 8 * (((a \div 8) + (b \div 8)) % 2)]

And4 ==
    [a \in 0..15, b \in 0..15 |->
        ((a % 2) * (b % 2))
        + 2 * (((a \div 2) % 2) * ((b \div 2) % 2))
        + 4 * (((a \div 4) % 2) * ((b \div 4) % 2))
        + 8 * (((a \div 8) % 2) * ((b \div 8) % 2))]

\* a 16-bit operation applied digit by digit
Digits16(op, a, b) ==
    op[a % 16, b % 16]
    + 16 * op[(a \div 16) % 16, (b \div 16) % 16]
    + 256 * op[(a \div 256) % 16, (b \div 256) % 16]
    + 4096 * op[(a \div 4096) % 16, (b \div 4096) % 16]

\* the operands are evaluated once, here, before the digits are taken
Xor16(a, b) == CHOOSE r \in {Digits16(Xor4, x, y) : x \in {a}, y \in {b}} : TRUE

And16(a, b) == CHOOSE r \in {Digits16(And4, x, y) : x \in {a}, y \in {b}} : TRUE

\* a | b = (a ^ b) + (a & b)
Or16(a, b) == Xor16(a, b) + And16(a, b)

Not16(a) == (U16 - 1) - a

-----------------------------------------------------------------------------
(* crc.rs *)

lo8(x) == And16(x, 255)

hi8(x) == Shr(x, 8)

\* crc_ccitt_update with the last term shifted by two places
crc_ccitt_update_short_shift(crc, data) ==
    LET d1 == Xor16(data, lo8(crc))
        d == Xor16(d1, Shl(d1, 4) % U16) % U8
    IN  Xor16(Xor16(Or16(Shl(d, 8) % U16, hi8(crc)), Shr(d, 4) % U8), Shl(d, 2) % U16)

\* crc_ccitt_update without the fold of the low nibble into the high one
crc_ccitt_update_unfolded(crc, data) ==
    LET d == Xor16(data, lo8(crc)) % U8
    IN  Xor16(Xor16(Or16(Shl(d, 8) % U16, hi8(crc)), Shr(d, 4) % U8), Shl(d, 3) % U16)

crc_ccitt_update(crc, data) ==
    LET d0 == data
        d1 == Xor16(d0, lo8(crc))
        d2 == Xor16(d1, Shl(d1, 4) % U16)
        d == d2 % U8
    IN  Xor16(Xor16(Or16(Shl(d, 8) % U16, hi8(crc)), Shr(d, 4) % U8), Shl(d, 3) % U16)

-----------------------------------------------------------------------------
(* encoding.rs *)

SYMBOLS == <<13, 14, 19, 21, 22, 25, 26, 28, 35, 37, 38, 41, 42, 44, 50, 52>>

encode_4b6b(byte) ==
    LET high == Shr(byte, 4)
        low == And16(byte, 15)
    IN  <<SYMBOLS[high + 1], SYMBOLS[low + 1]>>

\* a lookup that falls back to the last index
position_or_last(symbol) ==
    IF \E i \in 1..Len(SYMBOLS) : SYMBOLS[i] = symbol
    THEN (CHOOSE i \in 1..Len(SYMBOLS) :
              SYMBOLS[i] = symbol /\ \A j \in 1..(i - 1) : SYMBOLS[j] # symbol) - 1
    ELSE Len(SYMBOLS) - 1

\* SYMBOLS.iter().position(|s| s == symbol).unwrap_or(0)
position_or_0(symbol) ==
    IF \E i \in 1..Len(SYMBOLS) : SYMBOLS[i] = symbol
    THEN (CHOOSE i \in 1..Len(SYMBOLS) :
              SYMBOLS[i] = symbol /\ \A j \in 1..(i - 1) : SYMBOLS[j] # symbol) - 1
    ELSE 0

\* decode_6b4b with the two nibbles exchanged
decode_6b4b_swapped(symbol1, symbol2) ==
    LET b1 == position_or_0(symbol1)
        b2 == position_or_0(symbol2)
    IN  Or16(Shl(b2, 4) % U8, b1)

decode_6b4b(symbol1, symbol2) ==
    LET b1 == position_or_0(symbol1)
        b2 == position_or_0(symbol2)
    IN  Or16(Shl(b1, 4) % U8, b2)

\* encode_buffer: the two symbols of every byte, in order
encode_buffer(input) ==
    [i \in 1..(2 * Len(input)) |->
        encode_4b6b(input[(i + 1) \div 2])[IF i % 2 = 1 THEN 1 ELSE 2]]

\* decode_buffer: one byte per chunk of two symbols, nothing for an odd length
decode_buffer(input) ==
    IF Len(input) % 2 # 0 THEN <<>>
    ELSE [i \in 1..(Len(input) \div 2) |-> decode_6b4b(input[2 * i - 1], input[2 * i])]

-----------------------------------------------------------------------------
(* pll.rs *)

SoftwarePLL_new(ticks_per_bit, inverted) ==
    LET ramp_len == (ticks_per_bit * 20) % U16
        ramp_inc == ramp_len \div ticks_per_bit
        ramp_adjust == 9
    IN  [ ramp |-> 0, integrator |-> 0, last_sample |-> FALSE, bit_count |-> 0,
          active |-> FALSE, bits |-> 0, buf_len |-> 0, count |-> 0, full |-> FALSE,
          buf |-> <<>>, ramp_len |-> ramp_len, ramp_inc |-> ramp_inc,
          ramp_retard |-> ramp_inc - ramp_adjust,
          ramp_advance |-> ramp_inc + ramp_adjust,
          inverted |-> inverted, bad |-> 0 ]

\* a ramp that advances on an early edge and retards on a late one
ramp_step_swapped(pll, sample) ==
    IF sample # pll.last_sample
    THEN pll.ramp + (IF pll.ramp < pll.ramp_len \div 2
                     THEN pll.ramp_advance ELSE pll.ramp_retard)
    ELSE pll.ramp + pll.ramp_inc

\* a ramp that runs free of the edges it sees
ramp_step_free_running(pll, sample) ==
    pll.ramp + pll.ramp_inc

\* the ramp after the phase step of one sample (pll.rs 160-173)
ramp_step(pll, sample) ==
    IF sample # pll.last_sample
    THEN pll.ramp + (IF pll.ramp < pll.ramp_len \div 2
                     THEN pll.ramp_retard ELSE pll.ramp_advance)
    ELSE pll.ramp + pll.ramp_inc

\* a window that takes the new bit at its low end
shift_in_at_low_end(bits, integrator) ==
    LET shifted == Shl(bits, 1) % 4096
    IN  IF integrator >= 5 THEN Or16(shifted, 1) ELSE shifted

\* the 12-bit window after a bit boundary (pll.rs 178-184)
shift_in(bits, integrator) ==
    LET shifted == Shr(bits, 1)
    IN  IF integrator >= 5 THEN Or16(shifted, 2048) ELSE shifted

\* pll_byte completing the packet one byte late
pll_byte_one_late(p) ==
    LET this_byte == decode_6b4b(And16(p.bits, 63), Shr(p.bits, 6) % U8)
        first == p.buf_len = 0
        count == IF first THEN this_byte ELSE p.count
    IN  IF first /\ (count < 7 \/ count > ASK_MAX_PAYLOAD_LEN)
        THEN [ pll |-> [p EXCEPT !.count = count, !.active = FALSE,
                                 !.bad = (p.bad + 1) % U16],
               ovf |-> p.bad + 1 >= U16 ]
        ELSE LET buf_len == (p.buf_len + 1) % U8
                 done == buf_len > count
             IN  [ pll |-> [p EXCEPT !.count = count,
                                     !.buf = Append(p.buf, this_byte),
                                     !.buf_len = buf_len,
                                     !.active = IF done THEN FALSE ELSE p.active,
                                     !.full = IF done THEN TRUE ELSE p.full,
                                     !.bit_count = 0],
                   ovf |-> p.buf_len + 1 >= U8 ]

\* pll_byte taking any announced length
pll_byte_any_length(p) ==
    LET this_byte == decode_6b4b(And16(p.bits, 63), Shr(p.bits, 6) % U8)
        count == IF p.buf_len = 0 THEN this_byte ELSE p.count
        buf_len == (p.buf_len + 1) % U8
        done == buf_len >= count
    IN  [ pll |-> [p EXCEPT !.count = count,
                            !.buf = Append(p.buf, this_byte),
                            !.buf_len = buf_len,
                            !.active = IF done THEN FALSE ELSE p.active,
                            !.full = IF done THEN TRUE ELSE p.full,
                            !.bit_count = 0],
          ovf |-> p.buf_len + 1 >= U8 ]

\* a completed 12-bit pair while active (pll.rs 193-223); p has bit_count already
\* incremented and the window already shifted
pll_byte(p) ==
    LET this_byte == decode_6b4b(And16(p.bits, 63), Shr(p.bits, 6) % U8)
        first == p.buf_len = 0
        count == IF first THEN this_byte ELSE p.count
    IN  IF first /\ (count < 7 \/ count > ASK_MAX_PAYLOAD_LEN)
        THEN [ pll |-> [p EXCEPT !.count = count, !.active = FALSE,
                                 !.bad = (p.bad + 1) % U16],
               ovf |-> p.bad + 1 >= U16 ]
        ELSE LET buf_len == (p.buf_len + 1) % U8
                 done == buf_len >= count
             IN  [ pll |-> [p EXCEPT !.count = count,
                                     !.buf = Append(p.buf, this_byte),
                                     !.buf_len = buf_len,
                                     !.active = IF done THEN FALSE ELSE p.active,
                                     !.full = IF done THEN TRUE ELSE p.full,
                                     !.bit_count = 0],
                   ovf |-> p.buf_len + 1 >= U8 ]

\* SoftwarePLL::update with the level read from the RX pin; ovf tells that an
\* arithmetic overflow happened on the way
pll_update(pll, level) ==
    LET sample == IF pll.inverted THEN ~level ELSE level
        integ == pll.integrator + (IF sample THEN 1 ELSE 0)
        ramp == ramp_step(pll, sample)
        ovf0 == integ >= U8 \/ ramp >= U16
        p0 == [pll EXCEPT !.integrator = integ % U8, !.ramp = ramp % U16,
                          !.last_sample = sample]
    IN  IF p0.ramp >= p0.ramp_len
        THEN LET p1 == [p0 EXCEPT !.bits = shift_in(p0.bits, p0.integrator),
                                  !.ramp = p0.ramp - p0.ramp_len,
                                  !.integrator = 0]
             IN  IF p1.active
                 THEN LET p2 == [p1 EXCEPT !.bit_count = (p1.bit_count + 1) % U8]
                      IN  IF p2.bit_count >= 12
                          THEN LET r == pll_byte(p2)
                               IN  [pll |-> r.pll, ovf |-> ovf0 \/ r.ovf]
                          ELSE [pll |-> p2, ovf |-> ovf0]
                 ELSE IF p1.bits = ASK_START_SYMBOL
                      THEN [pll |-> [p1 EXCEPT !.active = TRUE, !.bit_count = 0,
                                               !.buf_len = 0],
                            ovf |-> ovf0]
                      ELSE [pll |-> p1, ovf |-> ovf0]
        ELSE [pll |-> p0, ovf |-> ovf0]

-----------------------------------------------------------------------------
(* driver.rs: the operations work on a world w = [d, p, panic, reads]: the  *)
(* driver, the pins, whether the call has panicked and how often it has    *)
(* read the RX pin                                                         *)

PREAMBLE == <<42, 42, 42, 42, 42, 42, 56, 44>>

Level(b) == IF b THEN 1 ELSE 0

\* OutputPin::set_high / set_low on TX: the level and the number of writes are
\* kept; when TX is wired to RX (the shared Pin of the simulated radio, lib.rs
\* 219-243) the write also appends the level to the queue RX samples from
pin_set(p, level) ==
    [p EXCEPT !.tx = level,
              !.tx_writes = p.tx_writes + 1,
              !.rx = IF p.wired THEN Append(p.rx, level) ELSE p.rx]

\* InputPin::is_high of that Pin (lib.rs 187-201): pop the front sample, low when
\* the queue is empty; every queued level stands for ticks_per_bit samples
pin_is_high(p) ==
    IF p.rx = <<>> THEN FALSE ELSE Head(p.rx) = 1

pin_pop(p, hold) ==
    IF p.rx = <<>> THEN p
    ELSE IF p.rx_phase + 1 >= hold
         THEN [p EXCEPT !.rx = Tail(p.rx), !.rx_phase = 0]
         ELSE [p EXCEPT !.rx_phase = p.rx_phase + 1]

write_tx(w, mode) == [w EXCEPT !.p = pin_set(w.p, Level(mode))]

\* write_ptt without the inversion
write_ptt_plain(w, mode) ==
    IF w.d.ptt_present
    THEN [w EXCEPT !.p.ptt = Level(mode), !.p.ptt_writes = w.p.ptt_writes + 1]
    ELSE w

write_ptt(w, mode) ==
    LET state == IF w.d.ptt_inverted THEN ~mode ELSE mode
    IN  IF w.d.ptt_present
        THEN [w EXCEPT !.p.ptt = Level(state), !.p.ptt_writes = w.p.ptt_writes + 1]
        ELSE w

set_mode_idle(w) ==
    IF w.d.mode # "Idle"
    THEN [write_tx(write_ptt(w, FALSE), FALSE) EXCEPT !.d.mode = "Idle"]
    ELSE w

\* set_mode_rx without its test of the mode
set_mode_rx_always(w) ==
    [write_tx(write_ptt(w, FALSE), FALSE) EXCEPT !.d.mode = "Rx"]

set_mode_rx(w) ==
    IF w.d.mode # "Rx"
    THEN [write_tx(write_ptt(w, FALSE), FALSE) EXCEPT !.d.mode = "Rx"]
    ELSE w

set_mode_tx(w) ==
    IF w.d.mode # "Tx"
    THEN [write_ptt([w EXCEPT !.d.tx_index = 0, !.d.tx_bit = 0, !.d.tx_sample = 0],
                    TRUE)
          EXCEPT !.d.mode = "Tx"]
    ELSE w

set_address(w, addr) == [w EXCEPT !.d.this_address = addr]

\* AskDriver::new: TX driven low once, the preamble prefilled, mode Idle
AskDriver_new(ticks_per_bit, ptt_present, ptt_inverted, rx_inverted) ==
    [ mode |-> "Idle",
      pll |-> SoftwarePLL_new(ticks_per_bit, rx_inverted),
      ticks_per_bit |-> ticks_per_bit,
      tick_counter |-> 0,
      tx_buf |-> PREAMBLE,
      tx_header_to |-> BROADCAST_ADDRESS,
      tx_header_from |-> BROADCAST_ADDRESS,
      tx_header_id |-> 0,
      tx_header_flags |-> 0,
      rx_header_to |-> 0,
      rx_header_from |-> 0,
      rx_header_id |-> 0,
      rx_header_flags |-> 0,
      this_address |-> BROADCAST_ADDRESS,
      promiscuous |-> FALSE,
      tx_good |-> 0,
      ptt_present |-> ptt_present,
      ptt_inverted |-> ptt_inverted,
      tx_index |-> 0,
      tx_bit |-> 0,
      tx_sample |-> 0,
      tx_buf_len |-> 0,
      rx_good |-> 0,
      rx_bad |-> 0,
      rx_buf_valid |-> FALSE ]

\* the pins after construction: new() has written TX low once and PTT never (its
\* level is then whatever the board gives, shown as -1)
pins_new(wired) ==
    [ tx |-> 0, tx_writes |-> 1, ptt |-> -1, ptt_writes |-> 0,
      rx |-> IF wired THEN <<0>> ELSE <<>>, rx_phase |-> 0, wired |-> wired ]

RECURSIVE crc_range(_, _, _, _)
\* the running CRC after feeding buf[lo..hi] in order (the range is halved, and the
\* left half is evaluated before the right half starts, so that the evaluation
\* stays shallow on long buffers)
crc_range(crc, buf, lo, hi) ==
    IF lo > hi THEN crc
    ELSE IF lo = hi THEN crc_ccitt_update(crc, buf[lo])
    ELSE LET mid == (lo + hi) \div 2
         IN  CHOOSE r \in {crc_range(left, buf, mid + 1, hi) :
                               left \in {crc_range(crc, buf, lo, mid)}} : TRUE

\* the running CRC after feeding the bytes of buf in order
crc_over(crc, buf) == crc_range(crc, buf, 1, Len(buf))

\* a u16 counter += 1: panics under overflow checks, wraps otherwise
Inc16(v) == IF v + 1 >= U16 /\ overflow_checks THEN -1 ELSE (v + 1) % U16

validate_rx_buf(w) ==
    LET crc == crc_over(65535, w.d.pll.buf)
    IN  IF crc # 61624
        THEN IF Inc16(w.d.rx_bad) < 0 THEN [w EXCEPT !.panic = TRUE]
             ELSE [w EXCEPT !.d.rx_bad = Inc16(w.d.rx_bad),
                            !.d.rx_buf_valid = FALSE]
        ELSE IF Len(w.d.pll.buf) < 5 THEN [w EXCEPT !.panic = TRUE]
        ELSE LET h == [w EXCEPT !.d.rx_header_to = w.d.pll.buf[2],
                                !.d.rx_header_from = w.d.pll.buf[3],
                                !.d.rx_header_id = w.d.pll.buf[4],
                                !.d.rx_header_flags = w.d.pll.buf[5]]
             IN  IF h.d.promiscuous
                    \/ h.d.rx_header_to = h.d.this_address
                    \/ h.d.rx_header_to = BROADCAST_ADDRESS
                 THEN IF Inc16(h.d.rx_good) < 0 THEN [w EXCEPT !.panic = TRUE]
                      ELSE [h EXCEPT !.d.rx_good = Inc16(h.d.rx_good),
                                     !.d.rx_buf_valid = TRUE]
                 ELSE h

\* availabile without its test of the mode
availabile_in_any_mode(w) ==
    LET r == set_mode_rx(w)
        v == IF r.d.pll.full
             THEN LET x == validate_rx_buf(r)
                  IN  IF x.panic THEN x ELSE [x EXCEPT !.d.pll.full = FALSE]
             ELSE r
    IN  [w |-> v, ret |-> v.d.rx_buf_valid]

\* availabile: the world after the call and the value returned
availabile(w) ==
    IF w.d.mode = "Tx" THEN [w |-> w, ret |-> FALSE]
    ELSE LET r == set_mode_rx(w)
             v == IF r.d.pll.full
                  THEN LET x == validate_rx_buf(r)
                       IN  IF x.panic THEN x ELSE [x EXCEPT !.d.pll.full = FALSE]
                  ELSE r
         IN  [w |-> v, ret |-> v.d.rx_buf_valid]

\* the sub-sequence buf[from..to) of a Rust slice, 0-based
Slice(buf, from, to) == [i \in 1..(to - from) |-> buf[from + i]]

None == <<"None">>

Some(x) == <<"Some", x>>

\* receive: the world after the call and the Option returned
receive(w) ==
    LET a == availabile(w)
    IN  IF a.w.panic THEN [w |-> a.w, ret |-> None]
        ELSE IF ~a.ret THEN [w |-> a.w, ret |-> None]
        ELSE LET buf_len == a.w.d.pll.buf_len
                 underflow == buf_len < 2
                 message_len == (buf_len + U8 - 2) % U8
                 from == ASK_HEADER_LEN + 1
             IN  IF (underflow /\ overflow_checks)
                    \/ from > message_len
                    \/ message_len > Len(a.w.d.pll.buf)
                 THEN [w |-> [a.w EXCEPT !.panic = TRUE], ret |-> None]
                 ELSE [w |-> [a.w EXCEPT !.d.rx_buf_valid = FALSE],
                       ret |-> Some(Slice(a.w.d.pll.buf, from, message_len))]

\* transmit_bit sending the most significant of the six bits first
transmit_bit_msb_first(w) ==
    IF w.d.tx_index >= w.d.tx_buf_len
    THEN IF Inc16(w.d.tx_good) < 0 THEN [w EXCEPT !.panic = TRUE]
         ELSE set_mode_idle([w EXCEPT !.d.tx_good = Inc16(w.d.tx_good)])
    ELSE IF w.d.tx_index + 1 > Len(w.d.tx_buf) THEN [w EXCEPT !.panic = TRUE]
    ELSE LET bit == And16(w.d.tx_buf[w.d.tx_index + 1], Shl(1, 5 - w.d.tx_bit))
             tx_bit == w.d.tx_bit + 1
             x == write_tx([w EXCEPT !.d.tx_bit = tx_bit], bit # 0)
         IN  IF tx_bit >= 6
             THEN [x EXCEPT !.d.tx_bit = 0, !.d.tx_index = w.d.tx_index + 1]
             ELSE x

transmit_bit(w) ==
    IF w.d.tx_index >= w.d.tx_buf_len
    THEN IF Inc16(w.d.tx_good) < 0 THEN [w EXCEPT !.panic = TRUE]
         ELSE set_mode_idle([w EXCEPT !.d.tx_good = Inc16(w.d.tx_good)])
    ELSE IF w.d.tx_index + 1 > Len(w.d.tx_buf) THEN [w EXCEPT !.panic = TRUE]
    ELSE LET bit == And16(w.d.tx_buf[w.d.tx_index + 1], Shl(1, w.d.tx_bit))
             tx_bit == w.d.tx_bit + 1
             x == write_tx([w EXCEPT !.d.tx_bit = tx_bit], bit # 0)
         IN  IF tx_bit >= 6
             THEN [x EXCEPT !.d.tx_bit = 0, !.d.tx_index = w.d.tx_index + 1]
             ELSE x

\* a tick that runs the receiver in every mode but Tx, and the transmitter
\* in Tx
tick_sampling_when_idle(w) ==
    IF w.d.mode = "Tx"
    THEN LET tick_counter == w.d.tick_counter + 1
         IN  IF tick_counter >= w.d.ticks_per_bit
             THEN transmit_bit([w EXCEPT !.d.tick_counter = 0])
             ELSE [w EXCEPT !.d.tick_counter = tick_counter]
    ELSE LET u == pll_update(w.d.pll, pin_is_high(w.p))
             x == [w EXCEPT !.d.pll = u.pll,
                            !.p = pin_pop(w.p, w.d.ticks_per_bit),
                            !.reads = w.reads + 1]
         IN  IF u.ovf /\ overflow_checks THEN [w EXCEPT !.panic = TRUE]
             ELSE IF x.d.pll.full /\ ~x.d.pll.active THEN validate_rx_buf(x)
             ELSE x

\* a tick that leaves Rx for Idle once it has validated a completed packet
tick_idle_after_packet(w) ==
    IF w.d.mode = "Rx"
    THEN LET u == pll_update(w.d.pll, pin_is_high(w.p))
             x == [w EXCEPT !.d.pll = u.pll,
                            !.p = pin_pop(w.p, w.d.ticks_per_bit),
                            !.reads = w.reads + 1]
         IN  IF u.ovf /\ overflow_checks THEN [w EXCEPT !.panic = TRUE]
             ELSE IF x.d.pll.full /\ ~x.d.pll.active
                  THEN set_mode_idle(validate_rx_buf(x))
             ELSE x
    ELSE IF w.d.mode = "Tx"
    THEN LET tick_counter == w.d.tick_counter + 1
         IN  IF tick_counter >= w.d.ticks_per_bit
             THEN transmit_bit([w EXCEPT !.d.tick_counter = 0])
             ELSE [w EXCEPT !.d.tick_counter = tick_counter]
    ELSE w

tick(w) ==
    IF w.d.mode = "Rx"
    THEN LET u == pll_update(w.d.pll, pin_is_high(w.p))
             x == [w EXCEPT !.d.pll = u.pll,
                            !.p = pin_pop(w.p, w.d.ticks_per_bit),
                            !.reads = w.reads + 1]
         IN  IF u.ovf /\ overflow_checks THEN [w EXCEPT !.panic = TRUE]
             ELSE IF x.d.pll.full /\ ~x.d.pll.active THEN validate_rx_buf(x)
             ELSE x
    ELSE IF w.d.mode = "Tx"
    THEN LET tick_counter == w.d.tick_counter + 1
         IN  IF tick_counter >= w.d.ticks_per_bit
             THEN transmit_bit([w EXCEPT !.d.tick_counter = 0])
             ELSE [w EXCEPT !.d.tick_counter = tick_counter]
    ELSE w

\* wait_packet_sent: WouldBlock while the mode is Tx
wait_packet_sent(w) == IF w.d.mode = "Tx" THEN "WouldBlock" ELSE "Ok"

\* the symbols pushed for a run of bytes, two per byte, high nibble first
encode_all(bytes) ==
    [i \in 1..(2 * Len(bytes)) |->
        encode_4b6b(bytes[(i + 1) \div 2])[IF i % 2 = 1 THEN 1 ELSE 2]]

\* the FCS symbols with the high byte sent first
fcs_symbols_hi_first(crc) ==
    << SYMBOLS[And16(Shr(crc, 12), 15) + 1],
       SYMBOLS[And16(Shr(crc, 8), 15) + 1],
       SYMBOLS[And16(Shr(crc, 4), 15) + 1],
       SYMBOLS[And16(crc, 15) + 1] >>

\* the four FCS symbols pushed for the complemented crc (driver.rs 634-637)
fcs_symbols(crc) ==
    << SYMBOLS[And16(Shr(crc, 4), 15) + 1],
       SYMBOLS[And16(crc, 15) + 1],
       SYMBOLS[And16(Shr(crc, 12), 15) + 1],
       SYMBOLS[And16(Shr(crc, 8), 15) + 1] >>

\* bytes.len() as u8 + 3 + ASK_HEADER_LEN, before truncation to u8
send_count(bytes) == (Len(bytes) % U8) + 3 + ASK_HEADER_LEN

\* send refuses the payload (driver.rs 602-604)
send_too_long(bytes) == (Len(bytes) % U8) > ASK_MAX_MESSAGE_LEN

\* send after the wait: frame the packet behind what tx_buf holds and enter Tx
send_frame(w, bytes) ==
    LET count == send_count(bytes) % U8
        body == <<count, w.d.tx_header_to, w.d.tx_header_from,
                  w.d.tx_header_id, w.d.tx_header_flags>> \o bytes
        crc == Not16(crc_over(65535, body))
        tx_buf == w.d.tx_buf \o encode_all(body) \o fcs_symbols(crc)
    IN  set_mode_tx([w EXCEPT !.d.tx_buf = tx_buf,
                              !.d.tx_buf_len = Len(tx_buf) % U8])

\* a send whose length test comes after the length byte has been framed
send_checks_late(w, bytes) ==
    IF send_count(bytes) >= U8 /\ overflow_checks
    THEN [w |-> [w EXCEPT !.panic = TRUE], ret |-> "panic"]
    ELSE IF send_too_long(bytes)
    THEN [w |-> [w EXCEPT !.d.tx_buf =
                     w.d.tx_buf \o encode_4b6b(send_count(bytes) % U8)],
          ret |-> "false"]
    ELSE IF wait_packet_sent(w) = "WouldBlock" THEN [w |-> w, ret |-> "wait"]
    ELSE [w |-> send_frame(w, bytes), ret |-> "true"]

\* AskDriver::send up to its first wait: the world after it and how it left:
\* "true", "false", "wait" (inside block!) or "panic" (the count overflowed u8
\* under overflow checks)
send(w, bytes) ==
    IF send_count(bytes) >= U8 /\ overflow_checks
    THEN [w |-> [w EXCEPT !.panic = TRUE], ret |-> "panic"]
    ELSE IF send_too_long(bytes) THEN [w |-> w, ret |-> "false"]
    ELSE IF wait_packet_sent(w) = "WouldBlock" THEN [w |-> w, ret |-> "wait"]
    ELSE [w |-> send_frame(w, bytes), ret |-> "true"]

-----------------------------------------------------------------------------
(* Inputs *)

\* byte values payloads are built from
ByteSet == {66, 255}

RECURSIVE SeqsUpTo(_, _)
SeqsUpTo(S, n) ==
    IF n = 0 THEN {<<>>}
    ELSE LET shorter == SeqsUpTo(S, n - 1)
         IN  shorter \cup {Append(q, b) : q \in {x \in shorter : Len(x) = n - 1}, b \in S}

Fill(n, b) == [i \in 1..n |-> b]

\* payload lengths at the edges of send's length test and of the u8 casts
EdgeLens == {ASK_MAX_MESSAGE_LEN, ASK_MAX_MESSAGE_LEN + 1, U8 - 7, U8}

Payloads == SeqsUpTo(ByteSet, MaxLen) \cup {Fill(n, 66) : n \in EdgeLens}

-----------------------------------------------------------------------------
(* The calls as steps of the state machine *)

W == [d |-> drv, p |-> pins, panic |-> FALSE, reads |-> 0]

Commit(w) ==
    /\ drv' = w.d
    /\ pins' = w.p
    /\ panicked' = w.panic

Ready == ~panicked /\ caller.pc = "ready"

\* bookkeeping of one foreground call that is not an accepted send
Called == [obs EXCEPT !.ops = obs.ops + 1, !.tx_clean = FALSE]

\* bookkeeping of a send that frames a packet and enters Tx
Framed(o, bytes) ==
    [o EXCEPT !.sends = o.sends + 1, !.last_p = bytes, !.tx_mark = pins.tx_writes,
              !.good0 = drv.tx_good, !.tx_ticks = 0, !.tx_clean = TRUE]

\* a call of AskDriver::send(bytes), up to its return or its first wait
send_call(bytes) ==
    /\ Ready
    /\ LET r == send(W, bytes)
       IN  /\ Commit(r.w)
           /\ call' = [op |-> CASE r.ret = "panic" -> "send_panic"
                                [] r.ret = "wait" -> "send_wait"
                                [] OTHER -> "send",
                       arg |-> bytes, ret |-> r.ret = "true"]
           /\ caller' = [caller EXCEPT !.pc = IF r.ret = "wait" THEN "send_wait"
                                               ELSE "ready"]
           /\ obs' = [ CASE r.ret = "true" ->
                                Framed([obs EXCEPT !.ops = obs.ops + 1], bytes)
                         [] r.ret = "wait" -> [obs EXCEPT !.ops = obs.ops + 1]
                         [] OTHER -> Called
                        EXCEPT !.busy = (drv.mode = "Tx") ]
    /\ UNCHANGED overflow_checks

\* one turn of the block!(wait_packet_sent()) loop inside send
send_wait_call ==
    /\ ~panicked
    /\ caller.pc = "send_wait"
    /\ IF wait_packet_sent(W) = "WouldBlock"
       THEN UNCHANGED <<drv, pins, panicked, call, caller, obs>>
       ELSE /\ Commit(send_frame(W, call.arg))
            /\ call' = [op |-> "send", arg |-> call.arg, ret |-> TRUE]
            /\ caller' = [caller EXCEPT !.pc = "ready"]
            /\ obs' = Framed(obs, call.arg)
    /\ UNCHANGED overflow_checks

\* AskDriver::tick; it needs the driver exclusively (&mut self), so it cannot run
\* while a send is waiting inside the driver
tick_call ==
    /\ Ready
    /\ \E w \in {tick(W)} :
          /\ Commit(w)
          /\ obs' = [obs EXCEPT
                       !.tx_ticks = IF drv.mode = "Tx" THEN @ + 1 ELSE @,
                       !.rx_reads = w.reads,
                       !.done_buf = IF /\ drv.pll.active /\ ~w.d.pll.active
                                       /\ Len(w.d.pll.buf) > Len(drv.pll.buf)
                                    THEN w.d.pll.buf ELSE @]
    /\ UNCHANGED <<overflow_checks, call, caller>>

availabile_call ==
    /\ Ready
    /\ LET r == availabile(W)
       IN  /\ Commit(r.w)
           /\ call' = [op |-> "availabile", arg |-> <<>>, ret |-> r.ret]
    /\ obs' = Called
    /\ UNCHANGED <<overflow_checks, caller>>

receive_call ==
    /\ Ready
    /\ LET r == receive(W)
       IN  /\ Commit(r.w)
           /\ call' = [op |-> "receive", arg |-> <<>>, ret |-> r.ret]
    /\ obs' = Called
    /\ UNCHANGED <<overflow_checks, caller>>

set_mode_idle_call ==
    /\ Ready
    /\ Commit(set_mode_idle(W))
    /\ call' = [op |-> "set_mode_idle", arg |-> <<>>, ret |-> FALSE]
    /\ obs' = Called
    /\ UNCHANGED <<overflow_checks, caller>>

set_mode_rx_call ==
    /\ Ready
    /\ Commit(set_mode_rx(W))
    /\ call' = [op |-> "set_mode_rx", arg |-> <<>>, ret |-> FALSE]
    /\ obs' = Called
    /\ UNCHANGED <<overflow_checks, caller>>

set_address_call(addr) ==
    /\ Ready
    /\ Commit(set_address(W, addr))
    /\ call' = [op |-> "set_address", arg |-> <<addr>>, ret |-> FALSE]
    /\ obs' = Called
    /\ UNCHANGED <<overflow_checks, caller>>

-----------------------------------------------------------------------------
(* Spec: a driver built with ticks_per_bit = 2 and a PTT pin, its calls freely   *)
(* interleaved with ticks                                                        *)

obs_new ==
    [ ops |-> 0, sends |-> 0, tx_mark |-> 1, good0 |-> 0, tx_ticks |-> 0,
      tx_clean |-> FALSE, last_p |-> <<>>, busy |-> FALSE, rx_reads |-> 0,
      done_buf |-> <<>> ]

InitWith(ticks_per_bit, ptt_present, wired) ==
    /\ drv = AskDriver_new(ticks_per_bit, ptt_present, FALSE, FALSE)
    /\ pins = pins_new(wired)
    /\ panicked = FALSE
    /\ overflow_checks \in BOOLEAN
    /\ call = [op |-> "none", arg |-> <<>>, ret |-> FALSE]
    /\ caller = [pc |-> "ready"]
    /\ obs = obs_new

Init ==
    /\ InitWith(2, TRUE, FALSE)
    /\ script = [name |-> "free"]

Budget == obs.ops < MaxOps

Send == Budget /\ (\E bytes \in Payloads : send_call(bytes)) /\ UNCHANGED script

SendWait == send_wait_call /\ UNCHANGED script

Tick == tick_call /\ UNCHANGED script

Availabile == Budget /\ availabile_call /\ UNCHANGED script

Receive == Budget /\ receive_call /\ UNCHANGED script

SetModeIdle == Budget /\ set_mode_idle_call /\ UNCHANGED script

SetModeRx == Budget /\ set_mode_rx_call /\ UNCHANGED script

Next ==
    \/ Send
    \/ SendWait
    \/ Tick
    \/ Availabile
    \/ Receive
    \/ SetModeIdle
    \/ SetModeRx

Spec == Init /\ [][Next]_vars

-----------------------------------------------------------------------------
(* SpecFair: the same calls, with the tick source and the waiting send both     *)
(* taking their steps whenever they can: the timer keeps firing and the         *)
(* block! loop keeps polling                                                    *)

SpecFair == Spec /\ WF_vars(Tick) /\ WF_vars(SendWait)

-----------------------------------------------------------------------------
(* SpecAbort: a transmission cut short by the caller at any tick, followed by a  *)
(* second send that is ticked to its end                                        *)

InitAbort ==
    /\ InitWith(2, TRUE, FALSE)
    /\ script = [name |-> "start"]

AbortSend ==
    /\ script.name \in {"start", "aborted"}
    /\ send_call(<<>>)
    /\ script' = [name |-> IF script.name = "start" THEN "first" ELSE "second"]

AbortTick == tick_call /\ UNCHANGED script

AbortToIdle ==
    /\ script.name = "first"
    /\ set_mode_idle_call
    /\ script' = [name |-> "aborted"]

AbortToRx ==
    /\ script.name = "first"
    /\ set_mode_rx_call
    /\ script' = [name |-> "aborted"]

NextAbort ==
    \/ AbortSend
    \/ AbortTick
    \/ AbortToIdle
    \/ AbortToRx

SpecAbort == InitAbort /\ [][NextAbort]_vars

-----------------------------------------------------------------------------
(* SpecIsr: the global driver of timer/isr.rs, an Option behind a mutex that is  *)
(* only borrowed inside critical_section::with.  script.some tells whether the  *)
(* Option holds a driver.  The foreground calls and the timer interrupt each    *)
(* run inside a critical section, so the interrupt is held off for as long as   *)
(* a foreground call has not returned.                                          *)

IsrPayloads == {<<>>, <<66>>, Fill(ASK_MAX_MESSAGE_LEN + 1, 66)}

\* global_ask_driver_init: the Option is None; drv is only read once setup has
\* put a driver there
InitIsr ==
    /\ InitWith(2, TRUE, FALSE)
    /\ script = [name |-> "isr", some |-> FALSE]

\* no critical section is held: the previous call has returned
CsFree == Ready

global_ask_driver_setup(ticks_per_bit, ptt_present) ==
    /\ CsFree
    /\ drv' = AskDriver_new(ticks_per_bit, ptt_present, FALSE, FALSE)
    /\ pins' = pins_new(FALSE)
    /\ script' = [script EXCEPT !.some = TRUE]
    /\ call' = [op |-> "setup", arg |-> <<>>, ret |-> FALSE]
    /\ obs' = [obs EXCEPT !.tx_clean = FALSE]
    /\ UNCHANGED <<panicked, overflow_checks, caller>>

global_ask_timer_tick ==
    /\ CsFree
    /\ IF script.some
       THEN tick_call
       ELSE UNCHANGED <<drv, pins, panicked, overflow_checks, call, caller, obs>>
    /\ UNCHANGED script

send_from_global_ask(vec) ==
    /\ CsFree
    /\ IF script.some
       THEN send_call(vec)
       ELSE /\ call' = [op |-> "send", arg |-> vec, ret |-> FALSE]
            /\ obs' = [Called EXCEPT !.busy = FALSE]
            /\ UNCHANGED <<drv, pins, panicked, overflow_checks, caller>>
    /\ UNCHANGED script

receive_from_global_ask ==
    /\ CsFree
    /\ IF script.some
       THEN LET a == availabile(W)
                r == IF a.ret THEN receive(a.w) ELSE [w |-> a.w, ret |-> None]
            IN  Commit(r.w) /\ call' = [op |-> "receive", arg |-> <<>>, ret |-> r.ret]
       ELSE /\ call' = [op |-> "receive", arg |-> <<>>, ret |-> None]
            /\ UNCHANGED <<drv, pins, panicked>>
    /\ obs' = Called
    /\ UNCHANGED <<overflow_checks, caller, script>>

IsrSetup ==
    /\ ~script.some
    /\ \E ptt_present \in BOOLEAN : global_ask_driver_setup(2, ptt_present)

IsrTick == global_ask_timer_tick

IsrSend == Budget /\ \E vec \in IsrPayloads : send_from_global_ask(vec)

IsrSendWait == send_wait_call /\ UNCHANGED script

IsrReceive == Budget /\ receive_from_global_ask

NextIsr ==
    \/ IsrSetup
    \/ IsrTick
    \/ IsrSend
    \/ IsrSendWait
    \/ IsrReceive

SpecIsr == InitIsr /\ [][NextIsr]_vars

-----------------------------------------------------------------------------
(* SpecLoop: the simulated radio of lib.rs (246-295): one driver with            *)
(* ticks_per_bit = 8, no PTT pin, and its TX wired to its own RX.  A round is:   *)
(* send, tick until the driver leaves Tx, set_mode_rx, tick through every        *)
(* queued sample, availabile, receive.                                           *)

LoopPayloads == {<<>>, <<66, 255>>, Fill(ASK_MAX_MESSAGE_LEN, 66)}

InitLoop ==
    /\ InitWith(8, FALSE, TRUE)
    /\ script = [name |-> "loop", phase |-> "start", round |-> 0]

LoopSend ==
    /\ script.phase \in {"start", "done"}
    /\ script.round < MaxRounds
    /\ \E bytes \in LoopPayloads : send_call(bytes)
    /\ script' = [script EXCEPT !.phase = "tx", !.round = script.round + 1]

LoopTxTick ==
    /\ script.phase = "tx"
    /\ tick_call
    /\ script' = [script EXCEPT !.phase = IF drv'.mode = "Tx" THEN "tx" ELSE "sent"]

LoopToRx ==
    /\ script.phase = "sent"
    /\ set_mode_rx_call
    /\ script' = [script EXCEPT !.phase = "rx"]

LoopRxTick ==
    /\ script.phase = "rx"
    /\ pins.rx # <<>>
    /\ tick_call
    /\ UNCHANGED script

LoopAvailabile ==
    /\ script.phase = "rx"
    /\ pins.rx = <<>>
    /\ availabile_call
    /\ script' = [script EXCEPT !.phase = "asked"]

LoopReceive ==
    /\ script.phase = "asked"
    /\ receive_call
    /\ script' = [script EXCEPT !.phase = "done"]

NextLoop ==
    \/ LoopSend
    \/ LoopTxTick
    \/ LoopToRx
    \/ LoopRxTick
    \/ LoopAvailabile
    \/ LoopReceive

SpecLoop == InitLoop /\ [][NextLoop]_vars

-----------------------------------------------------------------------------
(* SpecRx: a driver with ticks_per_bit = 8 listening to a peer.  The peer is a   *)
(* freshly constructed driver of the same code: its frame is what send builds,  *)
(* put on the air as transmit_bit writes it, every level held for ticks_per_bit *)
(* samples.  After each packet has been ticked in, the listener calls receive.  *)

RxPayloads == {<<>>, <<66>>, <<255, 66>>}

\* the transmit buffer a fresh peer builds for bytes
peer_frame(bytes) ==
    send_frame([d |-> AskDriver_new(8, FALSE, FALSE, FALSE),
                p |-> pins_new(FALSE), panic |-> FALSE, reads |-> 0], bytes).d.tx_buf

\* the levels transmit_bit writes for a buffer: each symbol's bits 0..5 in index
\* order, then the low level the return to Idle leaves on the line (two bit times
\* of it are taken, as much as the loopback has between two transmissions)
on_air(tx_buf) ==
    [i \in 1..(6 * Len(tx_buf)) |->
        IF And16(tx_buf[((i - 1) \div 6) + 1], Shl(1, (i - 1) % 6)) # 0 THEN 1 ELSE 0]
    \o <<0, 0>>

InitRx ==
    /\ InitWith(8, FALSE, FALSE)
    /\ script = [name |-> "rx", phase |-> "start", sent |-> <<>>, got |-> <<>>]

RxListen ==
    /\ script.phase = "start"
    /\ set_mode_rx_call
    /\ script' = [script EXCEPT !.phase = "listen"]

RxArrive ==
    /\ script.phase = "listen"
    /\ Len(script.sent) < MaxPackets
    /\ \E bytes \in RxPayloads :
          /\ pins' = [pins EXCEPT !.rx = on_air(peer_frame(bytes))]
          /\ script' = [script EXCEPT !.phase = "air",
                                      !.sent = Append(script.sent, bytes)]
    /\ UNCHANGED <<drv, panicked, overflow_checks, call, caller, obs>>

RxTick ==
    /\ script.phase = "air"
    /\ pins.rx # <<>>
    /\ tick_call
    /\ UNCHANGED script

RxReceive ==
    /\ script.phase = "air"
    /\ pins.rx = <<>>
    /\ receive_call
    /\ script' = [script EXCEPT !.phase = "listen",
                                !.got = Append(script.got, call'.ret)]

NextRx ==
    \/ RxListen
    \/ RxArrive
    \/ RxTick
    \/ RxReceive

SpecRx == InitRx /\ [][NextRx]_vars

-----------------------------------------------------------------------------
(* SpecListen: a driver with ticks_per_bit = 8 in Rx, and a sender that puts     *)
(* one packet after the other on the air, each with the full preamble.  The      *)
(* packets are well formed, or carry a wrong FCS, another address or an illegal  *)
(* length byte; a sender may also compute its FCS from another seed than 0xFFFF. *)
(* The listener calls availabile, receive and set_address at any moment.         *)

\* the address the listener may take (0x42); 0x41 is somebody else's
MyAddress == 66
OtherAddress == 65

\* the bytes of a packet as they are decoded: count, to, from, id, flags, the
\* payload, and the FCS of the complemented CRC run from seed
pkt(count, to, payload, seed) ==
    LET body == <<count, to, BROADCAST_ADDRESS, 0, 0>> \o payload
        c == Not16(crc_over(seed, body))
    IN  body \o <<lo8(c), hi8(c)>>

\* a packet of nine bytes whose second and third byte are the FCS of the first
\* byte run from seed
pkt_early(seed) ==
    LET c == Not16(crc_over(seed, <<9>>))
    IN  <<9, lo8(c), hi8(c), 0, 0, 66, 66, 0, 0>>

\* the CRC the listener's buffer has reached
BufCrc == crc_over(65535, drv.pll.buf)

\* what a sender may transmit to a listener whose buffer is still empty
FirstPackets ==
    { pkt(7, BROADCAST_ADDRESS, <<>>, 65535),
      pkt(7, BROADCAST_ADDRESS, <<>>, 0),
      pkt(6, BROADCAST_ADDRESS, <<>>, 65535),
      pkt(ASK_MAX_PAYLOAD_LEN + 1, BROADCAST_ADDRESS, <<>>, 65535) }

\* and to a listener whose buffer holds the bytes of an earlier packet
LaterPackets ==
    { pkt(6, BROADCAST_ADDRESS, <<>>, 65535),
      pkt(7, BROADCAST_ADDRESS, <<>>, BufCrc),
      pkt_early(BufCrc) }

\* the levels on the air for the bytes of a packet
wire(bytes) == on_air(PREAMBLE \o encode_all(bytes))

InitListen ==
    /\ InitWith(8, FALSE, FALSE)
    /\ script = [name |-> "listen", phase |-> "start", sent |-> <<>>, calls |-> 0]

ListenStart ==
    /\ script.phase = "start"
    /\ set_mode_rx_call
    /\ script' = [script EXCEPT !.phase = "rx"]

ListenArrive ==
    /\ script.phase = "rx"
    /\ Ready
    /\ script.calls = 0
    /\ pins.rx = <<>>
    /\ Len(script.sent) < MaxPackets
    /\ \E bytes \in IF drv.pll.buf = <<>> THEN FirstPackets ELSE LaterPackets :
          /\ pins' = [pins EXCEPT !.rx = wire(bytes)]
          /\ script' = [script EXCEPT !.sent = Append(script.sent, bytes)]
    /\ UNCHANGED <<drv, panicked, overflow_checks, call, caller, obs>>

\* the samples are ticked in until the caller makes its first call
ListenTick ==
    /\ script.phase = "rx"
    /\ script.calls = 0
    /\ pins.rx # <<>>
    /\ tick_call
    /\ UNCHANGED script

ListenAvailabile ==
    /\ script.phase = "rx"
    /\ script.calls < MaxOps
    /\ availabile_call
    /\ script' = [script EXCEPT !.calls = script.calls + 1]

ListenReceive ==
    /\ script.phase = "rx"
    /\ script.calls < MaxOps
    /\ receive_call
    /\ script' = [script EXCEPT !.calls = script.calls + 1]

NextListen ==
    \/ ListenStart
    \/ ListenArrive
    \/ ListenTick
    \/ ListenAvailabile
    \/ ListenReceive

SpecListen == InitListen /\ [][NextListen]_vars

-----------------------------------------------------------------------------
(* Reference definitions the properties are stated with *)

\* one step of the bitwise CCITT update: shift right, XOR 0x8408 when a 1 falls out
RefCrcShift(x) == IF x % 2 = 1 THEN Xor16(x \div 2, 33800) ELSE x \div 2

\* the bitwise CCITT update of avr-libc: crc XOR b, then eight shifts
RefCrcUpdate(crc, b) ==
    LET x0 == Xor16(crc, b)
        x4 == CHOOSE r \in {RefCrcShift(RefCrcShift(RefCrcShift(RefCrcShift(x0))))} : TRUE
    IN  RefCrcShift(RefCrcShift(RefCrcShift(RefCrcShift(x4))))

RECURSIVE RefCrc(_, _, _, _)
\* the reference CRC after the bytes lo..hi of a sequence
RefCrc(crc, bytes, lo, hi) ==
    IF lo > hi THEN crc
    ELSE IF lo = hi THEN RefCrcUpdate(crc, bytes[lo])
    ELSE CHOOSE r \in {RefCrc(c, bytes, ((lo + hi) \div 2) + 1, hi) :
                           c \in {RefCrc(crc, bytes, lo, (lo + hi) \div 2)}} : TRUE

\* the pair of symbols of a byte by table index
RefPair(b) == <<SYMBOLS[(b \div 16) + 1], SYMBOLS[(b % 16) + 1]>>

\* the frame the protocol prescribes for a payload p and the driver's tx headers
RefFrame(p) ==
    LET body == <<Len(p) + 7, drv.tx_header_to, drv.tx_header_from,
                  drv.tx_header_id, drv.tx_header_flags>> \o p
        c == (U16 - 1) - RefCrc(U16 - 1, body, 1, Len(body))
        pairs == [i \in 1..(2 * Len(body)) |->
                     RefPair(body[(i + 1) \div 2])[2 - (i % 2)]]
    IN  <<42, 42, 42, 42, 42, 42, 56, 44>> \o pairs
        \o << SYMBOLS[((c \div 16) % 16) + 1], SYMBOLS[(c % 16) + 1],
              SYMBOLS[((c \div 4096) % 16) + 1], SYMBOLS[((c \div 256) % 16) + 1] >>

-----------------------------------------------------------------------------
(* Properties *)

\* C3: for a freshly constructed driver and a payload p of at most 60 bytes, after
\* send(p) tx_buf is the preamble, then the symbol pair of every byte of count,
\* to, from, id, flags and the payload, then the four FCS symbols of the
\* complemented CRC in the order (c>>4)&F, c&F, (c>>12)&F, (c>>8)&F.
C3_FirstFrame ==
    (/\ call.op = "send" /\ call.ret = TRUE
     /\ obs.sends = 1 /\ obs.tx_ticks = 0
     /\ Len(call.arg) <= ASK_MAX_MESSAGE_LEN)
        => drv.tx_buf = RefFrame(call.arg)

C3_Witness ==
    /\ call.op = "send" /\ call.ret = TRUE
    /\ obs.sends = 1 /\ obs.tx_ticks = 0
    /\ Len(call.arg) = ASK_MAX_MESSAGE_LEN
    /\ drv.mode = "Tx"
    /\ drv.tx_buf = RefFrame(call.arg)

\* C4: after any send(p) that returns true, the first or a later one, tx_buf holds
\* the preamble followed only by that call's packet: its length is
\* PREAMBLE_LEN + 2*(1 + 4 + |p|) + 4.
C4_RebuiltPerSend ==
    (call.op = "send" /\ call.ret = TRUE)
        => Len(drv.tx_buf) = ASK_PREAMBLE_LEN + 2 * (1 + 4 + Len(call.arg)) + 4

\* C9: send(p) returns false if and only if |p| > MAX_MESSAGE, for every payload
\* length (and so it always returns).
C9_FalseIffTooLong ==
    /\ call.op = "send" => (call.ret = FALSE <=> Len(call.arg) > ASK_MAX_MESSAGE_LEN)
    /\ call.op # "send_panic"

\* C10: a send that returns false changes nothing of the driver: mode, tx_buf,
\* tx_buf_len, tx_index, tx_bit, the counters and the pins are as before the call.
C10_RejectedSendChangesNothing ==
    [][(obs'.ops = obs.ops + 1 /\ call'.op = "send" /\ call'.ret = FALSE)
          => (drv' = drv /\ pins' = pins)]_vars

C10_Witness ==
    /\ call.op = "send"
    /\ call.ret = FALSE
    /\ drv.mode = "Tx"
    /\ drv.tx_index > 0

\* TX writes since the last send that framed a packet
TxWrites == pins.tx_writes - obs.tx_mark

\* a send has framed a packet and no other call has been made since
Uninterrupted == obs.sends >= 1 /\ obs.tx_clean

\* bit i of symbol k (1-based) of tx_buf
TxBit(k, i) == (drv.tx_buf[k] \div (2 ^ i)) % 2

\* C5: in Tx one bit is written every ticks_per_bit ticks and none on the other
\* ticks; the values written from send to the return to Idle are the bits 0..5,
\* LSB first, of every symbol of tx_buf in index order, then one final low.
C5_BitSequence ==
    Uninterrupted =>
        /\ TxWrites = obs.tx_ticks \div drv.ticks_per_bit
        /\ drv.mode = "Tx" =>
              /\ TxWrites = 6 * drv.tx_index + drv.tx_bit
              /\ TxWrites <= 6 * Len(drv.tx_buf)
              /\ TxWrites >= 1 =>
                    pins.tx = TxBit(((TxWrites - 1) \div 6) + 1, (TxWrites - 1) % 6)
        /\ drv.mode = "Idle" =>
              /\ TxWrites = 6 * Len(drv.tx_buf) + 1
              /\ pins.tx = 0

\* ticks a transmission takes: one bit period per bit and one more to finish
TxDuration == (6 * drv.tx_buf_len + 1) * drv.ticks_per_bit

\* PTT level that means deasserted
PttOff == IF drv.ptt_inverted THEN 1 ELSE 0

\* C6: after send returns true and with ticks only, the driver is back in Idle
\* after exactly (6*tx_buf_len + 1)*ticks_per_bit ticks, not before and not later;
\* then tx_good has grown by exactly 1, PTT is deasserted, TX is low, and further
\* ticks change neither tx_good nor the pins.
C6_CompletesOnTime ==
    Uninterrupted =>
        /\ drv.mode \in {"Tx", "Idle"}
        /\ drv.mode = "Tx" =>
              /\ obs.tx_ticks < TxDuration
              /\ drv.tx_good = obs.good0
        /\ drv.mode = "Idle" =>
              /\ obs.tx_ticks = TxDuration
              /\ drv.tx_good = obs.good0 + 1
              /\ pins.ptt = PttOff
              /\ pins.tx = 0
              /\ TxWrites = 6 * drv.tx_buf_len + 1


-----------------------------------------------------------------------------
\* C7: a send called while mode is Tx leaves tx_buf, tx_buf_len, tx_index and
\* tx_bit alone while it waits and, with ticks continuing, eventually proceeds
\* and returns true
C7_WaitingSendProceeds ==
    (caller.pc = "send_wait") ~>
        (caller.pc = "ready" /\ call.op = "send" /\ call.ret)


\* C8: send_from_global_ask called while the driver is transmitting returns false
\* at once: the caller is out of the critical section, so the tick interrupt can
\* run again
C8_GlobalSendDoesNotBlock ==
    (script.some /\ call.op \in {"send", "send_wait"} /\ obs.busy) =>
        (caller.pc = "ready" /\ call.ret = FALSE)

\* C1: loopback round trip with ticks_per_bit = 8: after send(p), the ticks of the
\* transmission, the switch to Rx and the ticks through every sample written to TX,
\* availabile() returns true and receive() returns exactly p
C1_LoopbackRoundTrip ==
    /\ script.phase = "asked" => (call.op = "availabile" /\ call.ret = TRUE)
    /\ script.phase = "done" => (call.op = "receive" /\ call.ret = Some(obs.last_p))

\* the same for the first round of a freshly constructed driver
C1_FreshRoundTrip ==
    script.round = 1 => C1_LoopbackRoundTrip

C1_FreshWitness ==
    /\ script.round = 1
    /\ script.phase = "done"
    /\ Len(obs.last_p) = ASK_MAX_MESSAGE_LEN
    /\ call.ret = Some(obs.last_p)

\* C2: packets are surfaced in reception order: with receive() called after each
\* packet of the peer has come in, the k-th receive() returns the k-th payload
C2_ReceptionOrder ==
    \A k \in 1..Len(script.got) : script.got[k] = Some(script.sent[k])

\* the first packet a fresh listener hears is returned by the first receive()
C2_FirstPacket ==
    Len(script.got) >= 1 => script.got[1] = Some(script.sent[1])

\* a step in which the listening caller's call `op` returned
ListenCall(op) == script.name = "listen" /\ script'.calls = script.calls + 1 /\ call'.op = op

\* the driver and pins after the step, as a world for the next call
WNext == [d |-> drv', p |-> pins', panic |-> FALSE, reads |-> 0]

\* C11: whenever a validated packet is available (availabile() would return
\* true), receive() returns exactly the bytes pll.buf[5 .. buf_len - 2), clears
\* rx_buf_valid, and a receive() called immediately afterwards returns None
C11_ReceiveTakesPacketOnce ==
    [][ (ListenCall("receive") /\ availabile(W).ret) =>
           /\ ~panicked'
           /\ call'.ret = Some(Slice(drv'.pll.buf, ASK_HEADER_LEN + 1, drv'.pll.buf_len - 2))
           /\ ~drv'.rx_buf_valid
           /\ receive(WNext).ret = None ]_vars

\* the same for the first packet a fresh listener completes: no start symbol
\* has been seen since the packet was validated
C11_FirstPacketTakenOnce ==
    [][ (ListenCall("receive") /\ availabile(W).ret /\ Len(script.sent) = 1) =>
           /\ ~panicked'
           /\ call'.ret = Some(Slice(drv'.pll.buf, ASK_HEADER_LEN + 1, drv'.pll.buf_len - 2))
           /\ ~drv'.rx_buf_valid
           /\ receive(WNext).ret = None ]_vars

\* the bytes of the packet the PLL completed last (they are the tail of pll.buf
\* that was pushed since the start symbol of that packet)
LastCompleted == obs.done_buf

\* C12: in every reachable state, rx_buf_valid = true implies that the most
\* recently completed receive buffer run through the CRC from seed 0xFFFF
\* gives 0xF0B8
C12_ValidImpliesCrc ==
    drv.rx_buf_valid => crc_over(65535, LastCompleted) = 61624

\* a tick in which the PLL pushed the last byte of a packet
PacketCompleted ==
    /\ drv.mode = "Rx" /\ drv.pll.active
    /\ ~drv'.pll.active /\ drv'.pll.full
    /\ Len(drv'.pll.buf) > Len(drv.pll.buf)

\* the bytes of that packet: the buf_len bytes pushed since its start symbol
CompletedBytes ==
    Slice(drv'.pll.buf, Len(drv'.pll.buf) - drv'.pll.buf_len, Len(drv'.pll.buf))

\* C13: a completed packet whose bytes do not CRC to 0xF0B8 is never delivered:
\* rx_bad is incremented, rx_buf_valid is false afterwards, rx_good is unchanged
\* and receive() returns None
C13_BadCrcNeverDelivered ==
    [][ (PacketCompleted /\ crc_over(65535, CompletedBytes) # 61624) =>
           /\ drv'.rx_bad = drv.rx_bad + 1
           /\ ~drv'.rx_buf_valid
           /\ drv'.rx_good = drv.rx_good
           /\ receive(WNext).ret = None ]_vars

\* the same for the first packet a fresh listener completes
C13_FirstBadCrcRejected ==
    [][ (PacketCompleted /\ Len(script.sent) = 1
           /\ crc_over(65535, CompletedBytes) # 61624) =>
           /\ drv'.rx_bad = drv.rx_bad + 1
           /\ ~drv'.rx_buf_valid
           /\ drv'.rx_good = drv.rx_good
           /\ receive(WNext).ret = None ]_vars

C13_FirstBadCrcSeen ==
    /\ script.name = "listen" /\ Len(script.sent) = 1
    /\ obs.done_buf # <<>> /\ crc_over(65535, obs.done_buf) # 61624
    /\ drv.rx_bad > 0

-----------------------------------------------------------------------------
(* SpecAddress: a listener that was given an address hears one correct packet    *)
(* and, once its samples are in, makes up to MaxOps calls                        *)

Addresses == {MyAddress, OtherAddress}

\* the packets a peer sends: empty payload, correct FCS, one of three to bytes
AddressPackets ==
    { pkt(7, to, <<>>, 65535) : to \in Addresses \cup {BROADCAST_ADDRESS} }

InitAddress ==
    /\ InitWith(8, FALSE, FALSE)
    /\ script = [name |-> "address", phase |-> "start", sent |-> <<>>, calls |-> 0]

AddressSet ==
    /\ script.phase = "start"
    /\ \E a \in Addresses : set_address_call(a)
    /\ script' = [script EXCEPT !.phase = "addressed"]

AddressStart ==
    /\ script.phase = "addressed"
    /\ set_mode_rx_call
    /\ script' = [script EXCEPT !.phase = "rx"]

AddressArrive ==
    /\ script.phase = "rx"
    /\ Ready
    /\ script.sent = <<>>
    /\ \E bytes \in AddressPackets :
          /\ pins' = [pins EXCEPT !.rx = wire(bytes)]
          /\ script' = [script EXCEPT !.sent = <<bytes>>]
    /\ UNCHANGED <<drv, panicked, overflow_checks, call, caller, obs>>

AddressTick ==
    /\ script.phase = "rx"
    /\ pins.rx # <<>>
    /\ tick_call
    /\ UNCHANGED script

\* the caller acts when the samples of the packet are in
AddressTurn ==
    /\ script.phase = "rx"
    /\ script.sent # <<>>
    /\ pins.rx = <<>>
    /\ script.calls < MaxOps

AddressAvailabile ==
    /\ AddressTurn
    /\ availabile_call
    /\ script' = [script EXCEPT !.calls = script.calls + 1]

AddressReceive ==
    /\ AddressTurn
    /\ receive_call
    /\ script' = [script EXCEPT !.calls = script.calls + 1]

AddressChange ==
    /\ AddressTurn
    /\ \E a \in Addresses : set_address_call(a)
    /\ script' = [script EXCEPT !.calls = script.calls + 1]

NextAddress ==
    \/ AddressSet
    \/ AddressStart
    \/ AddressArrive
    \/ AddressTick
    \/ AddressAvailabile
    \/ AddressReceive
    \/ AddressChange

SpecAddress == InitAddress /\ [][NextAddress]_vars

\* a step of SpecAddress in which validate_rx_buf ran: a tick that left a full
\* buffer with the PLL inactive, or an availabile() that found pll.full set
AddressValidated ==
    \/ AddressTick /\ drv'.pll.full /\ ~drv'.pll.active
    \/ AddressAvailabile /\ drv.pll.full

\* what C14 asks of a validation of a CRC-correct buffer
AddressFiltered ==
    IF drv'.pll.buf[2] \in {drv.this_address, BROADCAST_ADDRESS}
    THEN drv'.rx_buf_valid /\ drv'.rx_good = drv.rx_good + 1
    ELSE ~drv'.rx_buf_valid /\ drv'.rx_good = drv.rx_good

\* C14: with promiscuous off and this_address = A, validating a CRC-correct
\* packet delivers it (rx_buf_valid true, rx_good incremented) if its to byte is
\* A or 0xFF, and otherwise leaves rx_buf_valid false and rx_good as it was
C14_AddressFilter ==
    [][ (AddressValidated /\ ~drv.promiscuous
           /\ crc_over(65535, drv'.pll.buf) = 61624) => AddressFiltered ]_vars

\* the same up to the caller's first call: the address is still the one that
\* was set before the packet arrived
C14_FilterBeforeAnyChange ==
    [][ (AddressValidated /\ ~drv.promiscuous /\ script.calls = 0
           /\ crc_over(65535, drv'.pll.buf) = 61624) => AddressFiltered ]_vars

\* a packet to another address was heard and dropped
C14_OtherDropped ==
    /\ script.name = "address" /\ script.calls > 0 /\ call.op = "availabile"
    /\ script.sent # <<>> /\ script.sent[1][2] = OtherAddress
    /\ drv.this_address = MyAddress /\ ~drv.rx_buf_valid /\ drv.rx_good = 0

\* the packet on the air during the step, and whether its length byte is one the
\* PLL refuses
Arriving == script.sent[Len(script.sent)]

BadLength(bytes) == bytes[1] < 7 \/ bytes[1] > ASK_MAX_PAYLOAD_LEN

\* a tick of the listener in which the PLL decoded the first byte after a start
\* symbol and left the packet
LengthAbort ==
    /\ script.name = "listen" /\ script.sent # <<>> /\ script' = script
    /\ drv.mode = "Rx" /\ drv.pll.active /\ drv.pll.buf_len = 0
    /\ ~drv'.pll.active
    /\ BadLength(Arriving)

\* C15: when the first byte decoded after a start symbol is less than 7 or
\* greater than 67, the PLL aborts the packet (active becomes false, full is
\* not set) and the driver's rx_bad counter is incremented
C15_LengthGuardCounted ==
    [][ LengthAbort =>
           /\ drv'.pll.full = drv.pll.full
           /\ drv'.rx_bad = drv.rx_bad + 1 ]_vars

\* what the code does at the length guard: the PLL leaves the packet, keeps full
\* and its buffer, and counts the packet in its own counter pll.bad
C15_PllAbortsAndCounts ==
    [][ LengthAbort =>
           /\ drv'.pll.full = drv.pll.full
           /\ drv'.pll.buf = drv.pll.buf
           /\ drv'.pll.bad = drv.pll.bad + 1 ]_vars

\* every length byte outside 7..67 that was sent does end in such an abort
C15_AbortSeen ==
    /\ script.name = "listen" /\ Len(script.sent) = 1 /\ BadLength(script.sent[1])
    /\ drv.pll.bad = 1 /\ drv.rx_bad = 0 /\ ~drv.pll.active

\* a tick of the listener taken while the PLL is inside a packet whose length
\* byte it refuses: from the start symbol up to and including the abort
InsideBadLength ==
    /\ script.name = "listen" /\ script.sent # <<>> /\ script' = script
    /\ drv.mode = "Rx" /\ drv.pll.active
    /\ BadLength(Arriving)

\* C16: a packet whose length byte is less than 7 or greater than 67 never
\* causes rx_good to be incremented and never causes rx_buf_valid to become
\* true, whatever the state of the driver in which it arrives (also right after
\* an earlier packet completed)
C16_BadLengthNeverDelivered ==
    [][ InsideBadLength =>
           /\ drv'.rx_good = drv.rx_good
           /\ (drv'.rx_buf_valid => drv.rx_buf_valid) ]_vars

\* the same for a listener that holds no completed packet when it arrives
C16_BadLengthAfterCollect ==
    [][ (InsideBadLength /\ ~drv.pll.full) =>
           /\ drv'.rx_good = drv.rx_good
           /\ ~drv'.rx_buf_valid ]_vars

\* C17: while mode is Tx, availabile() returns false and receive() returns None,
\* and neither call changes the mode, the TX and PTT pins, pll.full,
\* rx_buf_valid or any counter (nothing of the driver or its pins changes)
C17_NoReceptionWhileTx ==
    [][ ((Availabile \/ Receive) /\ drv.mode = "Tx") =>
           /\ call'.ret = IF call'.op = "receive" THEN None ELSE FALSE
           /\ drv' = drv
           /\ pins' = pins
           /\ ~panicked' ]_vars

\* receive() was called in the middle of a transmission
C17_Witness ==
    /\ script.name = "free"
    /\ call.op = "receive" /\ call.ret = None
    /\ drv.mode = "Tx" /\ drv.tx_index > 0 /\ pins.ptt = 1

\* the receive side of the driver: what only the Rx engine may touch
RxSide(d) == <<d.pll, d.rx_good, d.rx_bad, d.rx_buf_valid, d.rx_header_to,
               d.rx_header_from, d.rx_header_id, d.rx_header_flags>>

\* the transmit side of the driver and of its pins
TxSide(d, p) == <<d.tx_index, d.tx_bit, d.tx_sample, d.tick_counter, d.tx_good,
                  d.tx_buf, d.tx_buf_len, p.tx, p.tx_writes, p.ptt, p.ptt_writes>>

\* no sample left the RX pin in the step (a pin wired to TX may have gained
\* the level just written)
NoSampleTaken ==
    /\ pins'.rx_phase = pins.rx_phase
    /\ Len(pins'.rx) >= Len(pins.rx)
    /\ SubSeq(pins'.rx, 1, Len(pins.rx)) = pins.rx

\* C18: tick() touches only the engine selected by the current mode: in Idle it
\* changes nothing (no TX or PTT write, no RX sample, no counter change); in Tx
\* it never samples RX and never changes PLL state or rx counters; in Rx it
\* samples RX exactly once and never writes TX or PTT nor changes tx_index,
\* tx_bit, the tick counter or tx_good
C18_TickTouchesOneEngine ==
    [][ (Tick /\ ~panicked') =>
           CASE drv.mode = "Tx" ->
                   /\ obs'.rx_reads = 0
                   /\ RxSide(drv') = RxSide(drv)
                   /\ NoSampleTaken
             [] drv.mode = "Rx" ->
                   /\ obs'.rx_reads = 1
                   /\ TxSide(drv', pins') = TxSide(drv, pins)
                   /\ drv'.mode = "Rx"
             [] OTHER ->
                   /\ obs'.rx_reads = 0
                   /\ drv' = drv
                   /\ pins' = pins ]_vars

\* a tick sampled RX in Rx after a transmission had started and been left
C18_Witness ==
    /\ script.name = "free"
    /\ drv.mode = "Rx" /\ obs.rx_reads = 1
    /\ obs.sends = 1 /\ drv.tx_index > 0 /\ call.op = "set_mode_rx"

\* a step that is no call of the foreground: a tick, or samples arriving
Spontaneous == obs'.ops = obs.ops /\ caller.pc = "ready" /\ caller' = caller

-----------------------------------------------------------------------------
(* SpecPtt: the calls of Spec on a driver whose PTT pin is present and may be    *)
(* active low                                                                    *)

InitPtt ==
    /\ \E ptt_inverted \in BOOLEAN :
          drv = AskDriver_new(2, TRUE, ptt_inverted, FALSE)
    /\ pins = pins_new(FALSE)
    /\ panicked = FALSE
    /\ overflow_checks \in BOOLEAN
    /\ call = [op |-> "none", arg |-> <<>>, ret |-> FALSE]
    /\ caller = [pc |-> "ready"]
    /\ obs = obs_new
    /\ script = [name |-> "ptt"]

SpecPtt == InitPtt /\ [][Next]_vars

\* the level of the PTT pin that keys the transmitter
PttAsserted == IF drv.ptt_inverted THEN 0 ELSE 1

\* once the PTT pin has been written (at the first mode change), it is asserted
\* exactly when the mode is Tx
PttFollowsMode ==
    pins.ptt_writes > 0 => (drv.mode = "Tx" <=> pins.ptt = PttAsserted)

\* C20: from the first mode change on, PTT is asserted (ptt_inverted taken into
\* account) in exactly the states where the mode is Tx: entering Tx via send
\* asserts PTT and resets tx_index, tx_bit and tx_sample to 0; leaving Tx to
\* Idle or Rx deasserts PTT and drives TX low
C20_PttFollowsMode ==
    [][ /\ PttFollowsMode /\ PttFollowsMode'
        /\ (drv.mode # "Tx" /\ drv'.mode = "Tx") =>
              /\ call'.op = "send"
              /\ pins'.ptt = PttAsserted
              /\ drv'.tx_index = 0 /\ drv'.tx_bit = 0 /\ drv'.tx_sample = 0
        /\ (drv.mode = "Tx" /\ drv'.mode # "Tx") =>
              /\ pins'.ptt = 1 - PttAsserted
              /\ pins'.ptt_writes = pins.ptt_writes + 1
              /\ pins'.tx = 0
              /\ pins'.tx_writes = pins.tx_writes + 1 ]_vars

\* a transmission keyed by an active-low PTT was left for Rx half way
C20_Witness ==
    /\ script.name = "ptt" /\ drv.ptt_inverted
    /\ drv.mode = "Rx" /\ call.op = "set_mode_rx" /\ obs.sends = 1
    /\ drv.tx_index > 0 /\ pins.ptt = 1 /\ pins.tx = 0

\* the pins as the constructor leaves them: TX written low once, PTT never
\* written, mode Idle; nothing but a call of the foreground changes that
AsConstructed ==
    obs.ops = 0 =>
        /\ drv.mode = "Idle"
        /\ pins.tx = 0 /\ pins.tx_writes = 1
        /\ pins.ptt_writes = 0

\* the number of writes to the two output pins
PinWrites == <<pins.tx_writes, pins.ptt_writes>>

\* a call of the foreground that asks for the mode the driver is already in
SameModeCall ==
    /\ obs'.ops = obs.ops + 1
    /\ \/ call'.op \in {"availabile", "receive", "set_mode_rx"} /\ drv.mode = "Rx"
       \/ call'.op = "set_mode_idle" /\ drv.mode = "Idle"
       \/ call'.op \in {"send", "send_wait"} /\ drv.mode = "Tx"

-----------------------------------------------------------------------------
(* SpecCodec: the 4b6b codec applied to byte sequences and to raw symbol pairs   *)

MaxCodecLen == 3

CodecBytes == {0, 15, 171, 205}

\* every single byte, the short sequences over CodecBytes, and one of full length
CodecInputs ==
    {<<b>> : b \in 0..(U8 - 1)}
    \cup SeqsUpTo(CodecBytes, MaxCodecLen)
    \cup {Fill(ASK_MAX_PAYLOAD_LEN, 171)}

\* every pair of 6-bit values
SymbolPairs == {<<s1, s2>> : s1 \in 0..63, s2 \in 0..63}

InitCodec ==
    /\ InitWith(8, FALSE, FALSE)
    /\ \/ \E x \in CodecInputs :
             script = [name |-> "codec", pc |-> "start", input |-> x,
                       symbols |-> <<>>, output |-> <<>>]
       \/ \E pair \in SymbolPairs :
             script = [name |-> "codec", pc |-> "raw", input |-> <<>>,
                       symbols |-> pair, output |-> <<>>]

CodecEncode ==
    /\ script.pc = "start"
    /\ script' = [script EXCEPT !.symbols = encode_buffer(script.input),
                                !.pc = "encoded"]
    /\ UNCHANGED <<drv, pins, panicked, overflow_checks, call, caller, obs>>

CodecDecode ==
    /\ script.pc = "encoded"
    /\ script' = [script EXCEPT !.output = decode_buffer(script.symbols),
                                !.pc = "decoded"]
    /\ UNCHANGED <<drv, pins, panicked, overflow_checks, call, caller, obs>>

CodecDecodePair ==
    /\ script.pc = "raw"
    /\ script' = [script EXCEPT
                    !.output = <<decode_6b4b(script.symbols[1], script.symbols[2])>>,
                    !.pc = "decoded_pair"]
    /\ UNCHANGED <<drv, pins, panicked, overflow_checks, call, caller, obs>>

NextCodec ==
    \/ CodecEncode
    \/ CodecDecode
    \/ CodecDecodePair

SpecCodec == InitCodec /\ [][NextCodec]_vars

\* C22: codec round trip: for every byte b in 0..255, decoding the two symbols
\* produced by encode_4b6b(b) with decode_6b4b gives back b, and
\* decode_buffer(encode_buffer(x)) = x for every byte sequence x
C22_CodecRoundTrip ==
    script.name = "codec" =>
        /\ script.pc = "encoded" =>
              /\ Len(script.symbols) = 2 * Len(script.input)
              /\ \A i \in 1..Len(script.input) :
                    /\ script.symbols[2 * i - 1] = encode_4b6b(script.input[i])[1]
                    /\ script.symbols[2 * i] = encode_4b6b(script.input[i])[2]
                    /\ decode_6b4b(script.symbols[2 * i - 1], script.symbols[2 * i])
                          = script.input[i]
        /\ script.pc = "decoded" => script.output = script.input

\* a sequence of the longest short length came back with both nibbles in use
C22_Witness ==
    /\ script.name = "codec" /\ script.pc = "decoded"
    /\ script.input = <<171, 205, 15>> /\ script.output = script.input
    /\ script.symbols = <<38, 41, 42, 44, 13, 52>>

\* the sixteen 6-bit values of the table
ValidSymbols == {SYMBOLS[i] : i \in 1..Len(SYMBOLS)}

\* what decoding a pair of table symbols can return
ValidResults == {<<decode_6b4b(v1, v2)>> : v1 \in ValidSymbols, v2 \in ValidSymbols}

\* C23: decoding fails on invalid symbols: for every 6-bit value s that is not
\* one of the 16 table symbols, the result of decode_6b4b(s, x) and of
\* decode_6b4b(x, s) is distinguishable from the result of decoding any valid
\* symbol pair
C23_InvalidSymbolFails ==
    (/\ script.name = "codec" /\ script.pc = "decoded_pair"
     /\ \E i \in 1..2 : script.symbols[i] \notin ValidSymbols)
        => script.output \notin ValidResults

-----------------------------------------------------------------------------
(* SpecCrc: the CRC run from the seed over the length, headers and payload of a  *)
(* packet and then over two trailing bytes                                       *)

\* length, headers and payload as send lays them out, for four payloads
CrcBodies ==
    { <<Len(payload) + 7, BROADCAST_ADDRESS, BROADCAST_ADDRESS, 0, 0>> \o payload :
        payload \in {<<>>, <<66>>, <<255, 66>>, Fill(ASK_MAX_MESSAGE_LEN, 66)} }

InitCrc ==
    /\ InitWith(8, FALSE, FALSE)
    /\ overflow_checks = FALSE
    /\ \E body \in CrcBodies :
          script = [name |-> "crc", pc |-> "start", body |-> body,
                    before |-> 65535, crc |-> 65535, fcs |-> <<>>]

\* the loop of crc_ccitt_update over the body
CrcBody ==
    /\ script.pc = "start"
    /\ \E c \in {crc_over(65535, script.body)} :
          script' = [script EXCEPT !.pc = "body", !.before = c, !.crc = c]
    /\ UNCHANGED <<drv, pins, panicked, overflow_checks, call, caller, obs>>

\* one trailing byte
CrcTrailing ==
    /\ script.pc = "body"
    /\ Len(script.fcs) < 2
    /\ \E f \in 0..(U8 - 1) :
          script' = [script EXCEPT !.crc = crc_ccitt_update(script.crc, f),
                                   !.fcs = Append(script.fcs, f)]
    /\ UNCHANGED <<drv, pins, panicked, overflow_checks, call, caller, obs>>

NextCrc ==
    \/ CrcBody
    \/ CrcTrailing

SpecCrc == InitCrc /\ [][NextCrc]_vars

\* C24: CRC residue: for every running CRC value c reached from seed 0xFFFF
\* over length, headers and payload, and every pair of trailing bytes
\* (f_lo, f_hi), updating c with f_lo then f_hi gives 0xF0B8 if and only if
\* f_lo is the low byte of ~c and f_hi is the high byte of ~c
C24_CrcResidue ==
    (script.name = "crc" /\ Len(script.fcs) = 2) =>
        (script.crc = 61624
            <=> /\ script.fcs[1] = lo8(Not16(script.before))
                /\ script.fcs[2] = hi8(Not16(script.before)))

\* the residue was reached for the longest packet
C24_Witness ==
    /\ script.name = "crc" /\ Len(script.fcs) = 2
    /\ Len(script.body) = ASK_MAX_PAYLOAD_LEN - 2
    /\ script.crc = 61624
    /\ script.fcs = <<lo8(Not16(script.before)), hi8(Not16(script.before))>>

-----------------------------------------------------------------------------
(* SpecPll: a hunting PLL in Rx, its 12-bit window holding anything, hears the   *)
(* twelve bits of the start symbol, eight samples to the bit                     *)

\* the bits of the start symbol in the order they are sent, low bit first
StartBits ==
    [i \in 1..12 |-> IF And16(ASK_START_SYMBOL, Shl(1, i - 1)) # 0 THEN 1 ELSE 0]

\* every content of the window
Windows == 0..4095

\* the windows tried at every phase of the ramp
PhaseWindows == {0, 4095, ASK_START_SYMBOL, (2 * ASK_START_SYMBOL) % 4096}

\* the phases of the ramp of a PLL that has heard a steady line
Phases == 0..7

\* a listener in Rx whose PLL holds window in its 12 bits and stands at phase
listener(window, phase) ==
    LET w == set_mode_rx([d |-> AskDriver_new(8, FALSE, FALSE, FALSE),
                          p |-> pins_new(FALSE), panic |-> FALSE, reads |-> 0])
    IN  [w EXCEPT !.d.pll.bits = window,
                  !.d.pll.ramp = phase * w.d.pll.ramp_inc,
                  !.p.rx = StartBits \o <<0, 0>>]

InitPll ==
    /\ \E window \in Windows, phase \in Phases :
          /\ phase = 0 \/ window \in PhaseWindows
          /\ drv = listener(window, phase).d
          /\ pins = listener(window, phase).p
          /\ script = [name |-> "pll", window |-> window, phase |-> phase,
                       decided |-> <<>>]
    /\ panicked = FALSE
    /\ overflow_checks \in BOOLEAN
    /\ call = [op |-> "set_mode_rx", arg |-> <<>>, ret |-> FALSE]
    /\ caller = [pc |-> "ready"]
    /\ obs = obs_new

\* the bit a tick decides when its sample makes the ramp wrap: 1 when five or
\* more samples of the cycle were high (pll.rs 175-185), -1 when it decides none
decided_bit(pll, level) ==
    LET sample == IF pll.inverted THEN ~level ELSE level
    IN  IF ramp_step(pll, sample) < pll.ramp_len THEN -1
        ELSE IF pll.integrator + (IF sample THEN 1 ELSE 0) >= 5 THEN 1 ELSE 0

\* a tick; the bit it decided, if any, is noted
PllTick ==
    /\ script.name = "pll"
    /\ pins.rx # <<>>
    /\ tick_call
    /\ \E bit \in {decided_bit(drv.pll, pin_is_high(pins))} :
          script' = [script EXCEPT
                       !.decided = IF bit < 0 THEN @ ELSE Append(@, bit)]

NextPll == PllTick

SpecPll == InitPll /\ [][NextPll]_vars

\* the bits decided so far are the first bits of the start symbol
HeardStart ==
    /\ Len(script.decided) <= 12
    /\ \A i \in 1..Len(script.decided) : script.decided[i] = StartBits[i]

\* C25: start-symbol detection: from any contents of the 12-bit window with the
\* PLL hunting (active = false), if the next twelve decided bits are the bits
\* of 0x0B38 in LSB-first order, then active becomes true at the twelfth bit
\* boundary and not earlier, with bit_count = 0 and buf_len = 0
C25_StartSymbolDetected ==
    (script.name = "pll" /\ HeardStart) =>
        IF Len(script.decided) = 12
        THEN drv.pll.active /\ drv.pll.bit_count = 0 /\ drv.pll.buf_len = 0
        ELSE ~drv.pll.active

\* the start symbol was heard over a window that held a start symbol one bit late
C25_Witness ==
    /\ script.name = "pll" /\ HeardStart /\ Len(script.decided) = 12
    /\ script.window = (2 * ASK_START_SYMBOL) % 4096
    /\ drv.pll.active /\ drv.pll.bits = ASK_START_SYMBOL

\* C26: all buffers are bounded: in every state reachable by any sequence of
\* send, tick, availabile and receive calls the transmit buffer holds at most
\* 142 symbols and the PLL receive buffer holds at most 67 bytes
C26_BuffersBounded ==
    /\ Len(drv.tx_buf) <= ASK_MAX_BUF_LEN
    /\ Len(drv.pll.buf) <= ASK_MAX_PAYLOAD_LEN

\* the two halves of it
C26_TxBufBounded == Len(drv.tx_buf) <= ASK_MAX_BUF_LEN

C26_RxBufBounded == Len(drv.pll.buf) <= ASK_MAX_PAYLOAD_LEN

\* the buffer of the first transmission of a fresh driver is within the bound
\* when the payload is one that send is meant to accept
C26_FirstTxBufBounded ==
    (obs.sends <= 1 /\ Len(obs.last_p) <= ASK_MAX_MESSAGE_LEN)
        => Len(drv.tx_buf) <= ASK_MAX_BUF_LEN

\* the step in which the PLL locks on a start symbol
StartLock == ~drv.pll.active /\ drv'.pll.active

\* C27: the receive buffer is reset at the start of a packet: at the step where
\* active goes from false to true (start symbol matched) the PLL receive buffer
\* is empty and buf_len = 0, so the bytes stored for a packet are exactly the
\* bytes decoded since its own start symbol
C27_BufferResetAtStart ==
    [][ StartLock => drv'.pll.buf = <<>> /\ drv'.pll.buf_len = 0 ]_vars

\* what the code resets at the lock: the counters, not the bytes
C27_CountersResetAtStart ==
    [][ StartLock =>
           /\ drv'.pll.buf_len = 0 /\ drv'.pll.bit_count = 0
           /\ drv'.pll.buf = drv.pll.buf ]_vars

\* a lock happened while the buffer held the bytes of an earlier packet
C27_LockOverOldBytes ==
    /\ script.name = "rx" /\ drv.pll.active /\ drv.pll.buf_len = 0
    /\ drv.pll.buf # <<>>

\* the packets the driver has counted, good or bad
Validated(d) == d.rx_good + d.rx_bad

\* C28: each packet completed by the PLL is validated exactly once: between the
\* PLL setting full and the next start-symbol lock rx_good + rx_bad increases
\* by exactly 1, however many tick() calls elapse before the caller invokes
\* availabile() or receive(), and full is cleared once the packet has been
\* validated
C28_ValidatedOnce ==
    [][ script.name = "rx" =>
           /\ Validated(drv') <= Len(script'.sent)
           /\ Validated(drv') # Validated(drv) =>
                 /\ Validated(drv') = Validated(drv) + 1
                 /\ ~drv'.pll.full ]_vars

\* its first half alone: no more validations than packets sent
C28_CountedOnce ==
    script.name = "rx" => Validated(drv) <= Len(script.sent)

\* the tick that completes the first packet does validate it, once
C28_CompletionValidates ==
    [][ (script.name = "rx" /\ PacketCompleted /\ Len(script.sent) = 1) =>
           Validated(drv') = Validated(drv) + 1 ]_vars

\* C29: receive() never panics and never reads outside the packet: in every
\* reachable state in which availabile() returns true, 7 <= pll.buf_len <=
\* number of bytes in pll.buf, so buf_len - 2 does not underflow and the slice
\* from 5 to buf_len - 2 is well formed; also when a new start symbol has been
\* detected after the previous packet completed but before it was consumed
C29_ReceiveIsSafe ==
    \A a \in {availabile(W)} :
        (~panicked /\ caller.pc = "ready" /\ a.ret) =>
            /\ 7 <= a.w.d.pll.buf_len
            /\ a.w.d.pll.buf_len <= Len(a.w.d.pll.buf)
            /\ ~receive(W).w.panic

\* the same as long as only one packet has been on the air
C29_SafeForFirstPacket ==
    \A a \in {availabile(W)} :
        (~panicked /\ caller.pc = "ready" /\ a.ret
           /\ script.name = "listen" /\ Len(script.sent) = 1) =>
            /\ 7 <= a.w.d.pll.buf_len
            /\ a.w.d.pll.buf_len <= Len(a.w.d.pll.buf)
            /\ ~receive(W).w.panic

-----------------------------------------------------------------------------
(* C30: the announced length of a message the PLL is locked on             *)

\* C30 as stated: in every reachable state in which the PLL's active flag is
\* true, buf_len <= count <= 67 and count >= 7.  update() assigns count only
\* when the first byte after the start symbol is decoded (pll.rs 202-206), so
\* between the lock and that byte count is still 0 (pll.rs 128) or the length
\* of the message before
C30_ActiveCountInRange ==
    drv.pll.active =>
        /\ drv.pll.buf_len <= drv.pll.count
        /\ drv.pll.count <= ASK_MAX_PAYLOAD_LEN
        /\ drv.pll.count >= 7

\* C30 amended: in every reachable state in which the PLL's active flag is
\* true and the length byte of the message has been decoded (buf_len > 0),
\* buf_len < count <= 67 and count >= 7
C30_CountInRangeOnceDecoded ==
    (drv.pll.active /\ drv.pll.buf_len > 0) =>
        /\ drv.pll.buf_len < drv.pll.count
        /\ drv.pll.count <= ASK_MAX_PAYLOAD_LEN
        /\ drv.pll.count >= 7

\* the PLL is locked on the second message and has decoded its length byte
C30_Witness ==
    /\ script.name = "listen" /\ Len(script.sent) = 2
    /\ drv.pll.active /\ drv.pll.buf_len > 0
    /\ ~panicked

-----------------------------------------------------------------------------
(* C31: the bit counter between symbol completions                         *)

\* C31: in every state reached after a PLL update returns (hunting, locked,
\* just completed or just aborted), bit_count is in the range 0..11
C31_BitCountInRange ==
    drv.pll.bit_count \in 0..11

\* what does hold: bit_count reaches 12 only in the abort of a message for its
\* length byte, and stays there, unlocked, until the next start symbol
C31_BitCountTwelveOnlyAfterAbort ==
    /\ drv.pll.bit_count \in 0..12
    /\ drv.pll.bit_count = 12 =>
           /\ ~drv.pll.active
           /\ (drv.pll.count < 7 \/ drv.pll.count > ASK_MAX_PAYLOAD_LEN)

-----------------------------------------------------------------------------
(* SpecRamp: the PLL of a listener fed one arbitrary sample per tick, for   *)
(* several values of ticks_per_bit                                         *)

MaxRampTicks == 10

RampTicksPerBit == 1..4

InitRamp ==
    \E ticks_per_bit \in RampTicksPerBit :
        /\ InitWith(ticks_per_bit, FALSE, FALSE)
        /\ script = [name |-> "ramp", pc |-> "start", ticks |-> 0, steady |-> 0,
                     gap |-> -1, period |-> 0]

RampStart ==
    /\ script.name = "ramp" /\ script.pc = "start"
    /\ set_mode_rx_call
    /\ script' = [script EXCEPT !.pc = "line"]

\* the line takes a level before the next tick samples it
RampLine ==
    /\ script.name = "ramp" /\ script.pc = "line"
    /\ Ready
    /\ script.ticks < MaxRampTicks
    /\ \E level \in {0, 1} :
          pins' = [pins EXCEPT !.rx = <<level>>, !.rx_phase = 0]
    /\ script' = [script EXCEPT !.pc = "tick"]
    /\ UNCHANGED <<drv, panicked, overflow_checks, call, caller, obs>>

\* one tick; steady counts the ticks since the last change of the sample, gap
\* the ticks since the last bit boundary of that steady run (-1 before its first
\* boundary), period the ticks between the last two boundaries of a steady run
RampTick ==
    /\ script.name = "ramp" /\ script.pc = "tick"
    /\ tick_call
    /\ LET same == pin_is_high(pins) = drv.pll.last_sample
           boundary == drv'.pll.ramp <= drv.pll.ramp
       IN  script' = [script EXCEPT
                        !.pc = "line",
                        !.ticks = @ + 1,
                        !.steady = IF same THEN @ + 1 ELSE 0,
                        !.gap = IF ~same THEN -1
                                ELSE IF boundary THEN 0
                                ELSE IF @ = -1 THEN -1 ELSE @ + 1,
                        !.period = IF same /\ boundary /\ script.gap # -1
                                   THEN script.gap + 1 ELSE @]

NextRamp == RampStart \/ RampLine \/ RampTick

SpecRamp == InitRamp /\ [][NextRamp]_vars

\* C32: for every ticks_per_bit >= 1 and every sequence of RX samples, after
\* each PLL update the ramp satisfies 0 <= ramp < 2*ramp_len, the ramp being
\* reduced only by a single subtraction of ramp_len per update (and never
\* overflowing 16 bits)
C32_RampInRange ==
    script.name = "ramp" =>
        /\ 0 <= drv.pll.ramp
        /\ drv.pll.ramp < 2 * drv.pll.ramp_len
        /\ ~panicked

\* what does hold: with two or more ticks per bit the ramp is below ramp_len
\* after every update
C32_RampBelowLenFromTwo ==
    (script.name = "ramp" /\ drv.ticks_per_bit >= 2) =>
        /\ drv.pll.ramp < drv.pll.ramp_len
        /\ ~panicked

\* and an update takes ramp_len off the stepped ramp at most once
C32_SingleSubtraction ==
    [][ RampTick =>
          \E r \in {ramp_step(drv.pll, pin_is_high(pins))} :
              drv'.pll.ramp = IF r >= drv.pll.ramp_len
                              THEN r - drv.pll.ramp_len ELSE r ]_vars

-----------------------------------------------------------------------------
(* C33: the transmit buffer and its cursor                                 *)

\* the values a slot of tx_buf may hold
OnAirSymbols ==
    {SYMBOLS[i] : i \in 1..16} \cup {PREAMBLE[i] : i \in 1..Len(PREAMBLE)}

\* C33: transmit-buffer invariant: in every reachable state tx_index <=
\* tx_buf_len, tx_bit is in 0..5, tx_buf_len equals the number of symbols in
\* tx_buf after any send, and every element of tx_buf is one of the 16 table
\* symbols or a preamble byte, so transmit_bit never indexes tx_buf out of range
C33_TxBufferInvariant ==
    /\ drv.tx_index <= drv.tx_buf_len
    /\ drv.tx_bit \in 0..5
    /\ obs.sends > 0 => drv.tx_buf_len = Len(drv.tx_buf)
    /\ \A i \in 1..Len(drv.tx_buf) : drv.tx_buf[i] \in OnAirSymbols
    /\ drv.tx_index < drv.tx_buf_len => drv.tx_index + 1 <= Len(drv.tx_buf)

\* the same without the length: the cursor stays inside the buffer
C33_CursorInside ==
    /\ drv.tx_index <= drv.tx_buf_len
    /\ drv.tx_bit \in 0..5
    /\ drv.tx_buf_len <= Len(drv.tx_buf)
    /\ \A i \in 1..Len(drv.tx_buf) : drv.tx_buf[i] \in OnAirSymbols

\* and the length is right after the first send of a payload send may take
C33_FirstSendLength ==
    (obs.sends = 1 /\ Len(obs.last_p) <= ASK_MAX_MESSAGE_LEN) =>
        drv.tx_buf_len = Len(drv.tx_buf)

\* two packets of 60 bytes framed one after the other
C33_TwoLongSends ==
    /\ obs.sends = 2 /\ Len(obs.last_p) = ASK_MAX_MESSAGE_LEN
    /\ Len(drv.tx_buf) = 276 /\ drv.tx_buf_len = 20

-----------------------------------------------------------------------------
(* C34: completion of a packet in the PLL                                  *)

\* the tick samples a level that closes a bit period
BitBoundary ==
    ramp_step(drv.pll, IF drv.pll.inverted THEN ~pin_is_high(pins)
                       ELSE pin_is_high(pins)) >= drv.pll.ramp_len

\* the byte held by the window after the tick
WindowByte == decode_6b4b(And16(drv'.pll.bits, 63), Shr(drv'.pll.bits, 6))

LengthInRange(n) == 7 <= n /\ n <= ASK_MAX_PAYLOAD_LEN

-----------------------------------------------------------------------------
(* SpecNoise: a listener with ticks_per_bit = 8 hears a packet one symbol of *)
(* which has been turned into a 6-bit value that is not in the table       *)

\* 6-bit values outside the table
BadSymbols == {0, 63}

\* the symbols of a well-formed broadcast packet with a one-byte payload
NoiseSymbols == encode_all(pkt(8, BROADCAST_ADDRESS, <<66>>, 65535))

InitNoise ==
    /\ InitWith(8, FALSE, FALSE)
    /\ script = [name |-> "noise", phase |-> "start", symbols |-> <<>>, at |-> 0]

NoiseListen ==
    /\ script.name = "noise" /\ script.phase = "start"
    /\ set_mode_rx_call
    /\ script' = [script EXCEPT !.phase = "listen"]

NoiseArrive ==
    /\ script.name = "noise" /\ script.phase = "listen"
    /\ \E at \in 1..Len(NoiseSymbols), bad \in BadSymbols :
          \E symbols \in {[NoiseSymbols EXCEPT ![at] = bad]} :
              /\ pins' = [pins EXCEPT !.rx = on_air(PREAMBLE \o symbols)]
              /\ script' = [script EXCEPT !.phase = "air", !.symbols = symbols,
                                          !.at = at]
    /\ UNCHANGED <<drv, panicked, overflow_checks, call, caller, obs>>

NoiseTick ==
    /\ script.name = "noise" /\ script.phase = "air"
    /\ pins.rx # <<>>
    /\ tick_call
    /\ UNCHANGED script

NextNoise == NoiseListen \/ NoiseArrive \/ NoiseTick

SpecNoise == InitNoise /\ [][NextNoise]_vars

\* the nibble a 6-bit value stands for, 0 for a value outside the table
nibble_of(symbol) ==
    IF symbol \in ValidSymbols
    THEN (CHOOSE i \in 1..16 : SYMBOLS[i] = symbol) - 1
    ELSE 0

\* the bytes the symbols on the air stand for
NoisyBytes ==
    [k \in 1..(Len(script.symbols) \div 2) |->
        16 * nibble_of(script.symbols[2 * k - 1]) + nibble_of(script.symbols[2 * k])]

\* the tick closes a pair one symbol of which is outside the table
InvalidPairTick ==
    /\ NoiseTick
    /\ drv.pll.active /\ BitBoundary /\ drv.pll.bit_count = 11
    /\ \/ And16(drv'.pll.bits, 63) \notin ValidSymbols
       \/ Shr(drv'.pll.bits, 6) \notin ValidSymbols

\* when the packet has gone by and its length byte was legal, the PLL holds
\* all the bytes the symbols stood for
CollectedAtEnd ==
    (/\ script.name = "noise" /\ script.phase = "air" /\ pins.rx = <<>>
     /\ LengthInRange(NoisyBytes[1]))
        => (drv.pll.full /\ ~drv.pll.active /\ drv.pll.buf = NoisyBytes)

-----------------------------------------------------------------------------
(* SpecBitOrder: the simulated radio again (ticks_per_bit = 8, TX wired to   *)
(* RX): one packet with a one-byte payload is sent, ticked out, and then    *)
(* heard by the same driver in Rx                                          *)

\* payload bytes that put every table symbol in either place of a pair
OrderBytes == {16 * n + (15 - n) : n \in 0..15} \cup {0, 255}

InitBitOrder ==
    /\ InitWith(8, FALSE, TRUE)
    /\ overflow_checks = FALSE
    /\ script = [name |-> "order", phase |-> "start"]

OrderSend ==
    /\ script.name = "order" /\ script.phase = "start"
    /\ \E byte \in OrderBytes : send_call(<<byte>>)
    /\ script' = [script EXCEPT !.phase = "tx"]

OrderTxTick ==
    /\ script.name = "order" /\ script.phase = "tx"
    /\ tick_call
    /\ script' = [script EXCEPT !.phase = IF drv'.mode = "Tx" THEN "tx" ELSE "sent"]

OrderToRx ==
    /\ script.name = "order" /\ script.phase = "sent"
    /\ set_mode_rx_call
    /\ script' = [script EXCEPT !.phase = "rx"]

OrderRxTick ==
    /\ script.name = "order" /\ script.phase = "rx"
    /\ pins.rx # <<>>
    /\ tick_call
    /\ UNCHANGED script

NextBitOrder == OrderSend \/ OrderTxTick \/ OrderToRx \/ OrderRxTick

SpecBitOrder == InitBitOrder /\ [][NextBitOrder]_vars

\* the window that two symbols sent one after the other must leave
PairWindow(a, b) == a + 64 * b

\* the place in tx_buf of the first symbol of the pair that the n-th byte after
\* the start symbol is made of
PairAt(n) == ASK_PREAMBLE_LEN + 2 * n - 1

\* the tick that locks leaves the last two preamble symbols in the window
OrderLockStep ==
    (OrderRxTick /\ ~drv.pll.active /\ drv'.pll.active) =>
        /\ drv'.pll.bits = PairWindow(drv.tx_buf[ASK_PREAMBLE_LEN - 1],
                                      drv.tx_buf[ASK_PREAMBLE_LEN])
        /\ drv'.pll.bits = ASK_START_SYMBOL

\* the tick that closes the n-th pair leaves its two symbols in the window
OrderPairStep ==
    (OrderRxTick /\ drv.pll.active /\ BitBoundary /\ drv.pll.bit_count = 11) =>
        \E n \in {drv.pll.buf_len + 1} :
            /\ drv'.pll.bits = PairWindow(drv.tx_buf[PairAt(n)],
                                          drv.tx_buf[PairAt(n) + 1])
            /\ n = ASK_HEADER_LEN + 2 =>
                   /\ <<drv.tx_buf[PairAt(n)], drv.tx_buf[PairAt(n) + 1]>>
                          = encode_4b6b(obs.last_p[1])
                   /\ WindowByte = obs.last_p[1]
                   /\ drv'.pll.buf[n] = obs.last_p[1]

\* when every sample has been heard the payload byte is in the buffer
OrderHeard ==
    (script.name = "order" /\ script.phase = "rx" /\ pins.rx = <<>>) =>
        /\ drv.pll.full
        /\ Len(drv.pll.buf) = 8
        /\ drv.pll.buf[ASK_HEADER_LEN + 2] = obs.last_p[1]

\* C36: transmit serialisation and receive window agree on bit order: for any
\* two 6-bit symbols a then b emitted by the TX engine (each LSB-first) and
\* decided without error, the PLL's 12-bit window after those twelve bits
\* equals a + 64*b; hence the preamble tail 0x38, 0x2C produces exactly 0x0B38,
\* and for every byte B the window built from encode_4b6b(B) decodes (low six
\* bits as high nibble, upper six bits as low nibble) back to B
C36_BitOrderAgrees ==
    /\ [][OrderLockStep /\ OrderPairStep]_vars
    /\ []OrderHeard

\* the payload byte 0x1E has come back out of the window 0x0E + 64*0x32
C36_Witness ==
    /\ script.name = "order" /\ script.phase = "rx"
    /\ obs.last_p = <<30>>
    /\ drv.pll.active /\ drv.pll.buf_len = 6 /\ drv.pll.bit_count = 0
    /\ drv.pll.bits = PairWindow(14, 50)
    /\ drv.pll.buf[6] = 30

-----------------------------------------------------------------------------
(* SpecPhase: a fresh listener with ticks_per_bit = 8 whose line stays low  *)
(* for k samples before a peer's packet begins, every bit of it held for   *)
(* eight samples; after the last bit the line is low again, as the sender's *)
(* return to Idle leaves it (the last bit is decided within the first bit   *)
(* time of that low level)                                                 *)

PhasePayloads == {<<>>, <<66>>, <<255, 0>>}

Offsets == 0..7

\* the queue of levels for a packet that begins after k idle samples: a level
\* of the queue lasts ticks_per_bit samples, and the idle level has 8 - k of
\* its samples behind it
delayed(p, k, levels) ==
    IF k = 0 THEN [p EXCEPT !.rx = levels, !.rx_phase = 0]
    ELSE [p EXCEPT !.rx = <<0>> \o levels, !.rx_phase = 8 - k]

InitPhase ==
    /\ InitWith(8, FALSE, FALSE)
    /\ script = [name |-> "phase", phase |-> "start", sent |-> <<>>, k |-> 0]

PhaseListen ==
    /\ script.name = "phase" /\ script.phase = "start"
    /\ set_mode_rx_call
    /\ script' = [script EXCEPT !.phase = "listen"]

PhaseArrive ==
    /\ script.name = "phase" /\ script.phase = "listen"
    /\ \E bytes \in PhasePayloads, k \in Offsets :
          /\ pins' = delayed(pins, k, on_air(peer_frame(bytes)))
          /\ script' = [script EXCEPT !.phase = "air", !.sent = bytes, !.k = k]
    /\ UNCHANGED <<drv, panicked, overflow_checks, call, caller, obs>>

PhaseTick ==
    /\ script.name = "phase" /\ script.phase = "air"
    /\ pins.rx # <<>>
    /\ tick_call
    /\ UNCHANGED script

NextPhase == PhaseListen \/ PhaseArrive \/ PhaseTick

SpecPhase == InitPhase /\ [][NextPhase]_vars

-----------------------------------------------------------------------------
(* C38: the steps of the ramp                                              *)

\* the sample of the tick equals the one before
SteadySample ==
    (IF drv.pll.inverted THEN ~pin_is_high(pins) ELSE pin_is_high(pins))
        = drv.pll.last_sample

\* the ramp grows by 20, 11 or 29 and then loses ramp_len when it has reached it
RampStepped ==
    RampTick =>
        \E grown \in {drv.pll.ramp
                        + (IF SteadySample THEN 20
                           ELSE IF drv.pll.ramp < drv.pll.ramp_len \div 2 THEN 11
                           ELSE 29)} :
            /\ drv.pll.ramp_len = 20 * drv.ticks_per_bit
            /\ drv'.pll.ramp = IF grown >= drv.pll.ramp_len
                               THEN grown - drv.pll.ramp_len ELSE grown

\* on a steady line a boundary comes every ticks_per_bit ticks
SteadyPeriod ==
    script.name = "ramp" =>
        /\ script.gap < drv.ticks_per_bit
        /\ script.period \in {0, drv.ticks_per_bit}
        /\ script.gap = -1 => script.steady < drv.ticks_per_bit

\* C38: ramp stepping: on every PLL update the ramp first grows by 20 when the
\* sample equals last_sample, by 11 when the sample differs and ramp <
\* ramp_len/2, and by 29 when the sample differs and ramp >= ramp_len/2 (for
\* every ticks_per_bit); consequently with a constant input a bit boundary is
\* crossed exactly once every ticks_per_bit ticks
C38_RampStepping ==
    /\ [][RampStepped]_vars
    /\ []SteadyPeriod

\* with four ticks per bit two boundaries of a steady line have been seen, four
\* ticks apart, after an edge had retarded the ramp
C38_Witness ==
    /\ script.name = "ramp" /\ drv.ticks_per_bit = 4
    /\ script.period = 4
    /\ script.steady < script.ticks
    /\ drv.pll.ramp % 20 = 11

-----------------------------------------------------------------------------
(* C39: crc_ccitt_update against the bitwise update of avr-libc             *)

\* one round: shift right by one, and XOR 0x8408 when the bit shifted out is 1
crc_shift_round(crc) ==
    IF crc % 2 = 1 THEN Xor16(Shr(crc, 1), 33800) ELSE Shr(crc, 1)

RECURSIVE crc_shift_rounds(_, _)
\* n rounds, each on the value of the round before
crc_shift_rounds(crc, n) ==
    IF n = 0 THEN crc
    ELSE CHOOSE r \in {crc_shift_round(c) : c \in {crc_shift_rounds(crc, n - 1)}} :
             TRUE

\* _crc_ccitt_update of avr-libc, bit by bit
crc_ccitt_bitwise(crc, data) ==
    CHOOSE r \in {crc_shift_rounds(c, 8) : c \in {Xor16(crc, data)}} : TRUE

\* C39: crc_ccitt_update(crc, b) equals the reference bitwise CCITT update used
\* by avr-libc's _crc_ccitt_update (crc XOR b into the low byte, then eight
\* times: shift right by one and XOR 0x8408 when the bit shifted out is 1) for
\* every 16-bit crc and every byte b of the checked sets, and its result always
\* fits in 16 bits
C39_CrcMatchesBitwise ==
    [][ (script.name = "crc" /\ Len(script'.fcs) = Len(script.fcs) + 1) =>
          \E b \in {script'.fcs[Len(script'.fcs)]} :
              /\ script'.crc = crc_ccitt_bitwise(script.crc, b)
              /\ script'.crc \in 0..(U16 - 1) ]_vars

\* the byte 0x81 has been fed to the CRC of an empty packet's body
C39_Witness ==
    /\ script.name = "crc" /\ Len(script.body) = 5
    /\ script.fcs = <<129>>
    /\ script.crc = crc_ccitt_bitwise(script.before, 129)
    /\ script.crc # script.before

-----------------------------------------------------------------------------
(* C40: the tick counter between transmissions                             *)

\* C40: the transmit tick counter carries nothing between transmissions: in
\* every reachable state with mode other than Tx the tick counter is 0, so
\* after any sequence of operations (including a transmission cut short by
\* set_mode_idle or set_mode_rx) the first bit of the next transmission is
\* written exactly ticks_per_bit ticks after send, starting at tx_index = 0 and
\* tx_bit = 0
C40_TickCounterCleared ==
    drv.mode # "Tx" => drv.tick_counter = 0

\* what does hold: the counter is 0 outside Tx unless the caller has cut a
\* transmission short, and a send always starts at tx_index = 0 and tx_bit = 0
C40_ClearedUnlessCutShort ==
    /\ (drv.mode # "Tx" /\ script.name # "aborted") => drv.tick_counter = 0
    /\ drv.tick_counter < drv.ticks_per_bit
    /\ (drv.mode = "Tx" /\ obs.tx_ticks = 0) => (drv.tx_index = 0 /\ drv.tx_bit = 0)

=============================================================================
